---- MODULE Spec2Model ----
(***************************************************************************)
(* Thrive dashboard: the Flowhub client with its week cache                *)
(* (server/flowhub.js) and the lock-guarded trend rebuild                  *)
(* (server/rebuild.js, second half of server/index.js).                    *)
(*                                                                         *)
(* Dates are day numbers (day 0 is a Monday); the 'YYYY-MM-DD' strings of  *)
(* the code compare exactly as these numbers do.  Money is integer cents.  *)
(* An optional number (a JSON field that may be absent) is a set: {} when  *)
(* absent, {v} when present.                                               *)
(***************************************************************************)
EXTENDS Integers, Sequences, FiniteSets, TLC

(***************************************************************************)
(* Bounds of the model.  The page size (500 in the source) and the number  *)
(* of weeks a rebuild covers (12 in the source) are scaled down so that a  *)
(* fetch of a handful of orders spans several pages and several weeks.     *)
(***************************************************************************)
MaxWeeksBack == 3       \* largest weeksBack a request asks for (smallest: one less)
DaysAhead == 1          \* how many midnights pass during a run
PAGE_SIZE == 2          \* const PAGE_SIZE = 500
RebuildWeeksBack == 3   \* const weeksBack = 12
TickSeconds == 60       \* granularity of the wall clock
MaxTime == 180          \* seconds of wall clock the rebuild model follows
StartClock == 1000      \* Date.now() when the process starts, ms
GapTick == 100          \* granularity of the clock while callers arrive, ms
ArrivalWindow == 100    \* callers arrive at any tick of the first ms of this many
MaxClock == 50000       \* the clock is followed up to here, ms
MaxOrders == 3          \* longest order list given to summarizeOrders
MaxTasks == 5           \* most tasks given to one limiter
MaxCalls == 3           \* most saveWeekCache calls followed per armed timer
MaxDays == 28           \* number of consecutive current days given to weekRange

(***************************************************************************)
(* Program constants (rebuild.js).                                         *)
(***************************************************************************)
LOCK_TTL == 120
CONCURRENCY == 2

NULL == "null"              \* a null string (error: null)
Null == [null |-> TRUE]     \* a null object

(***************************************************************************)
(* JavaScript's  a || b  on an optional number: absent, NaN and 0 are      *)
(* falsy.                                                                  *)
(***************************************************************************)
OrElse(x, d) == IF x = {} \/ x = {0} THEN d ELSE CHOOSE v \in x : TRUE

RECURSIVE SumSeq(_)
SumSeq(s) == IF s = <<>> THEN 0 ELSE Head(s) + SumSeq(Tail(s))

Map(s, F(_)) == [i \in 1..Len(s) |-> F(s[i])]

RECURSIVE Flatten(_)
Flatten(ss) == IF ss = <<>> THEN <<>> ELSE Head(ss) \o Flatten(Tail(ss))

\* names of a sequence in order of first appearance (insertion order of a JS object)
RECURSIVE FirstSeen(_)
FirstSeen(s) ==
  IF s = <<>> THEN <<>>
  ELSE LET r == FirstSeen(SubSeq(s, 1, Len(s) - 1))
           x == s[Len(s)]
       IN IF \E i \in 1..Len(r) : r[i] = x THEN r ELSE Append(r, x)

(***************************************************************************)
(* Date helpers (flowhub.js 101-130, 325).                                 *)
(***************************************************************************)
\* variant: the week days are numbered from Monday = 0
dowPacific_MondayZero(today) == today % 7

\* Sun = 0 .. Sat = 6; day 0 is a Monday
dowPacific(today) == (today + 1) % 7

addDays(date, days) == date + days

weekRange(weeksBack, today) ==
  LET dow == dowPacific(today)
      daysSinceMonday == (dow + 6) % 7
      mondayStr == addDays(today, (0 - daysSinceMonday) - (weeksBack * 7))
      sundayStr == addDays(mondayStr, 6)
  IN [start |-> mondayStr, end |-> sundayStr]

todayRange(today) == [start |-> today, end |-> today]

isWeekCompleted(week, today) == week.end < today

weekCacheKey(importId, weekStart) == <<importId, weekStart>>

\* Array.from({length: weeksBack}, (_, i) => weekRange(weeksBack - 1 - i))
WeeksOf(weeksBack, today) == [i \in 1..weeksBack |-> weekRange(weeksBack - i, today)]

(***************************************************************************)
(* summarizeOrders (flowhub.js 186-253).                                   *)
(***************************************************************************)
\* Math.round(n * 100) / 100 of the amount num/den cents: nearest cent, half up
round2(num, den) == (2 * num + den) \div (2 * den)

orderIsVoided(order) == order.voided = TRUE \/ order.orderStatus = "voided"

\* (order.customerType || '').toLowerCase().includes('med')
isMed(customerType) == customerType \in {"med", "Medical", "MED", "medical"}

itemQty(item) == OrElse(item.quantity, 1)
lineGross(item) == OrElse(item.totalPrice, OrElse(item.unitPrice, 0) * itemQty(item))
\* variant: the discount is not taken off the line
lineNet_NoDiscount(item) == lineGross(item)

lineNet(item) == lineGross(item) - OrElse(item.totalDiscounts, 0)
itemCategory(item) == IF item.category # "" THEN item.category ELSE "Other"
orderBudtender(order) == IF order.budtender # "" THEN order.budtender ELSE "Unknown"

liveItems(order) == SelectSeq(order.itemsInCart, LAMBDA it : it.voided # TRUE)
liveOrders(orders) == SelectSeq(orders, LAMBDA o : ~orderIsVoided(o))

orderNet(order) == SumSeq(Map(liveItems(order), lineNet))
orderGross(order) == SumSeq(Map(liveItems(order), lineGross))
orderItems(order) == SumSeq(Map(liveItems(order), itemQty))

\* Array.prototype.sort((a, b) => b.net_sales - a.net_sales): stable, descending
RECURSIVE sortByNetDesc(_)
sortByNetDesc(s) ==
  IF s = <<>> THEN <<>>
  ELSE LET r == sortByNetDesc(SubSeq(s, 1, Len(s) - 1))
           x == s[Len(s)]
           k == Cardinality({i \in 1..Len(r) : r[i].net_sales >= x.net_sales})
       IN SubSeq(r, 1, k) \o <<x>> \o SubSeq(r, k + 1, Len(r))

catEntries(live) ==
  LET items == Flatten(Map(live, liveItems))
      names == FirstSeen(Map(items, itemCategory))
      of(c) == SelectSeq(items, LAMBDA it : itemCategory(it) = c)
  IN [i \in 1..Len(names) |->
        [name |-> names[i],
         net_sales |-> SumSeq(Map(of(names[i]), lineNet)),
         units |-> SumSeq(Map(of(names[i]), itemQty)),
         transactions |-> Len(of(names[i]))]]

btEntries(live) ==
  LET names == FirstSeen(Map(live, orderBudtender))
      of(b) == SelectSeq(live, LAMBDA o : orderBudtender(o) = b)
  IN [i \in 1..Len(names) |->
        [name |-> names[i],
         transactions |-> Len(of(names[i])),
         net_sales |-> SumSeq(Map(of(names[i]), orderNet)),
         items |-> SumSeq(Map(of(names[i]), orderItems))]]

summarizeOrders(orders) ==
  IF Len(orders) = 0
  THEN [transaction_count |-> 0, net_sales |-> 0, gross_sales |-> 0,
        avg_basket |-> 0, total_items |-> 0,
        categories |-> <<>>, budtenders |-> <<>>,
        customer_types |-> [rec |-> 0, med |-> 0]]
  ELSE
    LET live == liveOrders(orders)
        net_sales == SumSeq(Map(live, orderNet))
        gross_sales == SumSeq(Map(live, orderGross))
        total_items == SumSeq(Map(live, orderItems))
        med == Len(SelectSeq(live, LAMBDA o : isMed(o.customerType)))
        txnCount == Len(orders)
    IN [transaction_count |-> txnCount,
        net_sales |-> round2(net_sales, 1),
        gross_sales |-> round2(gross_sales, 1),
        avg_basket |-> IF txnCount > 0 THEN round2(net_sales, txnCount) ELSE round2(0, 1),
        total_items |-> total_items,
        customer_types |-> [rec |-> Len(live) - med, med |-> med],
        categories |-> Map(sortByNetDesc(catEntries(live)),
                           LAMBDA c : [c EXCEPT !.net_sales = round2(c.net_sales, 1)]),
        budtenders |-> sortByNetDesc(
           Map(btEntries(live), LAMBDA b :
              [name |-> b.name, transactions |-> b.transactions,
               net_sales |-> round2(b.net_sales, 1), items |-> b.items,
               avg_basket |-> IF b.transactions # 0
                              THEN round2(b.net_sales, b.transactions)
                              ELSE round2(0, 1)]))]

(***************************************************************************)
(* The upstream commerce API (external): the stores and, per store, the    *)
(* orders it holds, ascending by date.  Store A has a week (7..13) with an  *)
(* order on each boundary day, which a page boundary splits; store B has a *)
(* closed week whose only order is voided (net sales 0).                   *)
(***************************************************************************)
Item(category, quantity, totalPrice, totalDiscounts) ==
  [voided |-> FALSE, quantity |-> {quantity}, totalPrice |-> {totalPrice},
   unitPrice |-> {}, totalDiscounts |-> totalDiscounts, category |-> category]

Order(id, createdAt, voided, budtender, items) ==
  [id |-> id, createdAt |-> createdAt, voided |-> voided, orderStatus |-> "sold",
   customerType |-> "rec", budtender |-> budtender, itemsInCart |-> items]

FirstDay == 2 * 7 + 6      \* the run starts on the Sunday of the week 14..20

Locations ==
  << [importId |-> "A", id |-> "cactus"], [importId |-> "B", id |-> "reno"] >>

ImportIds == {Locations[i].importId : i \in 1..Len(Locations)}

UpstreamOrders(importId) ==
  IF importId = "A"
  THEN << Order(1, 0, FALSE, "ann", << Item("Flower", 1, 10000, {1000}) >>),
          Order(2, 7, FALSE, "bob", << Item("Vape", 2, 8000, {}),
                                       Item("Edible", 1, 2000, {}) >>),
          Order(3, 13, FALSE, "ann", << Item("Flower", 1, 6000, {500}) >>),
          Order(4, 20, FALSE, "ann", << Item("Edible", 3, 3000, {}) >>) >>
  ELSE << Order(5, 5, FALSE, "cy", << Item("Flower", 1, 5000, {}) >>),
          Order(6, 9, TRUE, "cy", << Item("Flower", 1, 7000, {}) >>) >>

\* the orders of a store created within [start, end], both days included
OrdersInRange(importId, start, end) ==
  SelectSeq(UpstreamOrders(importId),
            LAMBDA o : o.createdAt >= start /\ o.createdAt <= end)

\* the complete record set of a store's week, summarized
FullSummary(importId, week) ==
  summarizeOrders(OrdersInRange(importId, week.start, week.end))

\* one page of the transaction listing: {orders, total}
UpstreamPage(importId, start, end, page) ==
  LET all == OrdersInRange(importId, start, end)
      lo == (page - 1) * PAGE_SIZE + 1
      hi == IF page * PAGE_SIZE <= Len(all) THEN page * PAGE_SIZE ELSE Len(all)
  IN [orders |-> SubSeq(all, lo, hi), total |-> Len(all)]

\* the page requests a complete fetch of the range makes
PagesOf(importId, start, end) ==
  LET n == Len(OrdersInRange(importId, start, end))
  IN IF n = 0 THEN 1
     ELSE IF n % PAGE_SIZE = 0 THEN n \div PAGE_SIZE ELSE (n \div PAGE_SIZE) + 1

\* no fetch of the stores above needs more page requests than this
MaxPages ==
  LET n(id) == Len(UpstreamOrders(id))
      most == CHOOSE m \in {n(id) : id \in ImportIds} : \A id \in ImportIds : n(id) <= m
  IN (most \div PAGE_SIZE) + 1

(***************************************************************************)
(* getOrdersForLocation (flowhub.js 145-183).  failAt is the page whose    *)
(* flowhubGet throws (0: none does); the catch logs and breaks, and the    *)
(* function returns what it has accumulated.                               *)
(***************************************************************************)
RECURSIVE pageLoop(_, _, _, _, _, _)
pageLoop(importId, start, end, page, allOrders, failAt) ==
  IF page = failAt THEN allOrders
  ELSE LET data == UpstreamPage(importId, start, end, page)
           batch == data.orders
           total == data.total
           acc == allOrders \o batch
       IN IF Len(acc) >= total \/ Len(batch) < PAGE_SIZE THEN acc
          ELSE pageLoop(importId, start, end, page + 1, acc, failAt)

getOrdersForLocation(importId, start, end, failAt) ==
  LET allOrders == pageLoop(importId, start, end, 1, <<>>, failAt)
  IN [total |-> Len(allOrders), orders |-> allOrders]

(***************************************************************************)
(* Week cache helpers and bucketOrdersByWeek (flowhub.js 291, 324-344).    *)
(***************************************************************************)
\* variant: an entry under the week's key is used whether the week is closed or not
isCached_KeyOnly(cache, importId, week, today) ==
  weekCacheKey(importId, week.start) \in DOMAIN cache

\* isWeekCompleted(w) && _weekCache[weekCacheKey(importId, w.start)]
isCached(cache, importId, week, today) ==
  isWeekCompleted(week, today) /\ weekCacheKey(importId, week.start) \in DOMAIN cache

cachePut(cache, key, entry) ==
  [k \in DOMAIN cache \cup {key} |-> IF k = key THEN entry ELSE cache[k]]

\* variant: the last day of a week is not part of it
firstBucket_EndExcluded(d, weeks) ==
  LET m == {i \in 1..Len(weeks) : d >= weeks[i].start /\ d < weeks[i].end}
  IN IF m = {} THEN 0 ELSE CHOOSE i \in m : \A j \in m : i <= j

\* the first bucket whose week holds the day d (0: none does)
firstBucket(d, weeks) ==
  LET m == {i \in 1..Len(weeks) : d >= weeks[i].start /\ d <= weeks[i].end}
  IN IF m = {} THEN 0 ELSE CHOOSE i \in m : \A j \in m : i <= j

bucketOrdersByWeek(orders, weeks) ==
  [i \in 1..Len(weeks) |->
     [week |-> weeks[i],
      summary |-> summarizeOrders(
         SelectSeq(orders, LAMBDA o : firstBucket(o.createdAt, weeks) = i)),
      error |-> NULL]]

\* variant: the net_sales > 0 test is left out
shouldCache_NoSalesCheck(entry, today) == isWeekCompleted(entry.week, today)

\* if (isWeekCompleted(entry.week) && entry.summary?.net_sales > 0)
shouldCache(entry, today) ==
  isWeekCompleted(entry.week, today) /\ entry.summary.net_sales > 0

\* variant: only the oldest bucket is considered for the cache
cacheCompletedWeeks_FirstOnly(cache, importId, trend, today) ==
  IF trend = <<>> \/ ~(Head(trend).week.end < today /\ Head(trend).summary.net_sales > 0)
  THEN cache
  ELSE cachePut(cache, weekCacheKey(importId, Head(trend).week.start), Head(trend))

\* for (const entry of trend) if (...) _weekCache[key] = entry
RECURSIVE cacheCompletedWeeks(_, _, _, _)
cacheCompletedWeeks(cache, importId, trend, today) ==
  IF trend = <<>> THEN cache
  ELSE LET entry == Head(trend)
           c2 == IF shouldCache(entry, today)
                 THEN cachePut(cache, weekCacheKey(importId, entry.week.start), entry)
                 ELSE cache
       IN cacheCompletedWeeks(c2, importId, Tail(trend), today)

\* weeks.filter(w => !(isWeekCompleted(w) && _weekCache[key]))
uncachedWeeks(cache, importId, weeks, today) ==
  SelectSeq(weeks, LAMBDA w : ~isCached(cache, importId, w, today))

\* weeks.map(w => completed && cached ? _weekCache[ck] : null)
fastTrend(cache, importId, weeks, today) ==
  [i \in 1..Len(weeks) |->
     IF isCached(cache, importId, weeks[i], today)
     THEN cache[weekCacheKey(importId, weeks[i].start)]
     ELSE Null]

\* variant: the index of the first week is returned
findIndex_First(weeks, week) == 1

\* weeks.findIndex(w => w.start === week.start)
findIndex(weeks, week) ==
  CHOOSE i \in 1..Len(weeks) :
     weeks[i].start = week.start /\ \A j \in 1..(i - 1) : weeks[j].start # week.start

(***************************************************************************)
(* State of the server process (flowhub.js module state and the requests   *)
(* in flight).                                                             *)
(***************************************************************************)
VARIABLES
  today,          \* todayPacific()
  _weekCache,     \* key -> {week, summary, error}
  _savePending,   \* a flush timer is armed
  cacheFile,      \* content of thrive-week-cache.json
  _locations,     \* Null until getLocations has succeeded
  req             \* per request slot: the call it runs and where it is suspended

trendVars == <<today, _weekCache, _savePending, cacheFile, _locations, req>>

(***************************************************************************)
(* State of the rebuild coordinator (rebuild.js) and of the key-value      *)
(* store it shares with the other workers.                                 *)
(***************************************************************************)
VARIABLES
  now,            \* wall clock, seconds
  lease,          \* the LOCK_KEY entry of the store: NoLease or [owner, expires]
  published,      \* the CACHE_KEY entry of the store: Null or the payload
  wk              \* per worker: the rebuildTrendCache invocation it runs

rebuildVars == <<now, lease, published, wk>>

(***************************************************************************)
(* State of the Flowhub HTTP client (flowhubGet) and of its callers.       *)
(***************************************************************************)
VARIABLES
  clk,            \* Date.now(), milliseconds
  _lastApi,       \* when the last flowhubGet call passed the gap
  call,           \* per caller: the flowhubGet call it runs
  prevSend,       \* when the request before the last one was sent (-1: none)
  lastSend        \* when the last request was sent (-1: none)

flowhubVars == <<clk, _lastApi, call, prevSend, lastSend>>

(***************************************************************************)
(* One getOrdersForLocation call followed page by page, and the inputs and *)
(* the result of one application of summarizeOrders or bucketOrdersByWeek. *)
(***************************************************************************)
VARIABLES
  pg,             \* the locals of the getOrdersForLocation call
  inOrders,       \* the order list given to the function
  inWeeks,        \* the week list given to bucketOrdersByWeek
  ret             \* Null, or the function applied and what it returned

pagingVars == <<pg>>
sampleVars == <<inOrders, inWeeks, ret>>

(***************************************************************************)
(* State of the serving layer (index.js): the in-process NodeCache behind  *)
(* cached(), and the readers of the trend routes and of getCachedTrend.    *)
(***************************************************************************)
VARIABLES
  nodeCache,      \* cache: key -> {} (undefined) or {value}
  rd              \* per reader: the request it has in flight

serveVars == <<nodeCache, rd>>

(***************************************************************************)
(* State of one pLimit(concurrency) limiter (rebuild.js 243-258).          *)
(***************************************************************************)
VARIABLES
  active,         \* let active = 0
  queue,          \* const queue = []: the tasks pushed and not yet started
  task            \* per task: "new", "queued", "running", "resolved" or "rejected"

limitVars == <<active, queue, task>>

(***************************************************************************)
(* The week-cache file and the timers of saveWeekCache (flowhub.js         *)
(* 289-322), seen over restarts of the process.                            *)
(***************************************************************************)
VARIABLES
  fileState,      \* thrive-week-cache.json: "absent", "ok", "corrupt" or "unreadable"
  boot,           \* the last module load: how it ended ("up", "threw"), the file it found
  timers,         \* number of setTimeout callbacks of saveWeekCache not yet run
  burst           \* since the last timer was armed: saveWeekCache calls, file writes, how the last write ended

saveVars == <<fileState, boot, timers, burst>>

vars == <<trendVars, rebuildVars, flowhubVars, pagingVars, sampleVars, serveVars, limitVars, saveVars>>

\* what the steps of one part of the program leave alone
exceptTrend == <<rebuildVars, flowhubVars, pagingVars, sampleVars, serveVars, limitVars, saveVars>>
exceptRebuild == <<trendVars, flowhubVars, pagingVars, sampleVars, serveVars, limitVars, saveVars>>
exceptFlowhub == <<trendVars, rebuildVars, pagingVars, sampleVars, serveVars, limitVars, saveVars>>
exceptPaging == <<trendVars, rebuildVars, flowhubVars, sampleVars, serveVars, limitVars, saveVars>>
exceptSample == <<trendVars, rebuildVars, flowhubVars, pagingVars, serveVars, limitVars, saveVars>>
exceptServe == <<trendVars, rebuildVars, flowhubVars, pagingVars, sampleVars, limitVars, saveVars>>
exceptLimit == <<trendVars, rebuildVars, flowhubVars, pagingVars, sampleVars, serveVars, saveVars>>
exceptSave == <<rebuildVars, flowhubVars, pagingVars, sampleVars, serveVars, limitVars>>

\* the request in flight; its awaits interleave with the timer and midnight
Reqs == {"r1"}

WeeksBackInputs == {MaxWeeksBack - 1, MaxWeeksBack}

EmptyCache == [k \in {} |-> Null]

\* a request slot with no call running
IdleReq ==
  [pc |-> "idle", op |-> "none", importId |-> "", weeksBack |-> 0, weeks |-> <<>>, li |-> 0,
   trend |-> <<>>, results |-> <<>>, fetch |-> Null, error |-> NULL,
   lwSummary |-> Null, twSummary |-> Null, todaySummary |-> Null, td |-> Null,
   \* history of the call, for the properties
   nFetch |-> 0,          \* getOrdersForLocation calls issued
   failAt |-> 0,          \* the page request that failed in the last of them (0: none)
   allCached |-> FALSE]   \* every closed requested week was cached when the path was chosen

CanStart(p) ==
  /\ \A q \in Reqs : req[q].pc # "done"
  /\ req[p].pc = "idle"

Suspended(p, pc) ==
  /\ \A q \in Reqs : req[q].pc # "done"
  /\ req[p].pc = pc

Fetch(importId, start, end) == [importId |-> importId, start |-> start, end |-> end]

\* the call suspends on  await getOrdersForLocation(...)
Issue(r, pc, f) == [r EXCEPT !.pc = pc, !.fetch = f, !.nFetch = @ + 1]

\* outcomes of one getOrdersForLocation: no page fails, or page 1..n fails
FailPages(f) == IF f = Null THEN {} ELSE 0..PagesOf(f.importId, f.start, f.end)

Fetched(f, failAt) == getOrdersForLocation(f.importId, f.start, f.end, failAt)

\* every closed week of the request was cached when the path was chosen
AllClosedCached(cache, importId, weeks, day) ==
  \A i \in 1..Len(weeks) :
     isWeekCompleted(weeks[i], day) =>
        weekCacheKey(importId, weeks[i].start) \in DOMAIN cache

TrendInit ==
  /\ today = FirstDay
  /\ _weekCache = EmptyCache
  /\ _savePending = FALSE
  /\ cacheFile = EmptyCache
  /\ _locations = Null
  /\ req = [p \in Reqs |-> IdleReq]

\* the call returns: its value is handed to the route, which responds
Return(r, value) == [r EXCEPT !.pc = "done", !.results = value]

Respond(p) ==
  /\ req[p].pc = "done"
  /\ req' = [req EXCEPT ![p] = IdleReq]
  /\ UNCHANGED <<today, _weekCache, _savePending, cacheFile, _locations>>
  /\ UNCHANGED exceptTrend

(***************************************************************************)
(* getWeeklyTrend (flowhub.js 422-458).                                    *)
(***************************************************************************)
\* variant: the fast path is never taken
wtFastPath_Never(uncached) == Len(uncached) < 1

\* uncached.length <= 1: the fast path
wtFastPath(uncached) == Len(uncached) <= 1

\* the synchronous part up to the first await
getWeeklyTrend_Call(p, importId, weeksBack) ==
  /\ CanStart(p)
  /\ LET weeks == WeeksOf(weeksBack, today)
         uncached == uncachedWeeks(_weekCache, importId, weeks, today)
         r0 == [IdleReq EXCEPT !.op = "getWeeklyTrend", !.importId = importId,
                               !.weeksBack = weeksBack, !.weeks = weeks,
                               !.allCached = AllClosedCached(_weekCache, importId, weeks, today)]
     IN req' = [req EXCEPT ![p] =
          IF wtFastPath(uncached)
          THEN LET trend == fastTrend(_weekCache, importId, weeks, today)
               IN IF Len(uncached) = 1
                  THEN Issue([r0 EXCEPT !.trend = trend], "wt_fast",
                             Fetch(importId, uncached[1].start, uncached[1].end))
                  ELSE Return(r0, trend)
          ELSE Issue(r0, "wt_bulk",
                     Fetch(importId, weeks[1].start, weeks[Len(weeks)].end))]
  /\ UNCHANGED <<today, _weekCache, _savePending, cacheFile, _locations>>
  /\ UNCHANGED exceptTrend

\* fast path: the one uncached week's fetch returns
getWeeklyTrend_FastReturn(p, failAt) ==
  /\ Suspended(p, "wt_fast")
  /\ failAt \in FailPages(req[p].fetch)
  /\ LET r == req[p]
         f == r.fetch
         orders == Fetched(f, failAt).orders
         week == [start |-> f.start, end |-> f.end]
         idx == findIndex(r.weeks, week)
         trend == [r.trend EXCEPT ![idx] =
                     [week |-> week, summary |-> summarizeOrders(orders), error |-> NULL]]
     IN req' = [req EXCEPT ![p] = Return([r EXCEPT !.failAt = failAt], trend)]
  /\ UNCHANGED <<today, _weekCache, _savePending, cacheFile, _locations>>
  /\ UNCHANGED exceptTrend

\* bulk path: the fetch of the whole range returns
getWeeklyTrend_BulkReturn(p, failAt) ==
  /\ Suspended(p, "wt_bulk")
  /\ failAt \in FailPages(req[p].fetch)
  /\ LET r == req[p]
         orders == Fetched(r.fetch, failAt).orders
         trend == bucketOrdersByWeek(orders, r.weeks)
     IN /\ _weekCache' = cacheCompletedWeeks(_weekCache, r.importId, trend, today)
        /\ _savePending' = TRUE
        /\ req' = [req EXCEPT ![p] = Return([r EXCEPT !.failAt = failAt], trend)]
  /\ UNCHANGED <<today, cacheFile, _locations>>
  /\ UNCHANGED exceptTrend

(***************************************************************************)
(* saveWeekCache's timer (flowhub.js 307-320) and the passing of midnight. *)
(***************************************************************************)
FlushTimer(ok) ==
  /\ \A q \in Reqs : req[q].pc # "done"
  /\ _savePending
  /\ _savePending' = FALSE
  /\ cacheFile' = IF ok THEN _weekCache ELSE cacheFile
  /\ UNCHANGED <<today, _weekCache, _locations, req>>
  /\ UNCHANGED exceptTrend

Midnight ==
  /\ \A q \in Reqs : req[q].pc # "done"
  /\ today < FirstDay + DaysAhead
  /\ today' = today + 1
  /\ UNCHANGED <<_weekCache, _savePending, cacheFile, _locations, req>>
  /\ UNCHANGED exceptTrend

(***************************************************************************)
(* getLocations (flowhub.js 70-96): the list is fetched once and kept.     *)
(***************************************************************************)
\* the first getLocations of the process throws (flowhubGet failed)
getLocations_Throws(p, op) ==
  /\ CanStart(p)
  /\ _locations = Null
  /\ req' = [req EXCEPT ![p] =
        [IdleReq EXCEPT !.pc = "done", !.op = op, !.error = "Flowhub: max retries"]]
  /\ UNCHANGED <<today, _weekCache, _savePending, cacheFile, _locations>>
  /\ UNCHANGED exceptTrend

(***************************************************************************)
(* getAllStoresWeeklyTrend (flowhub.js 350-419).                           *)
(***************************************************************************)
\* variant: the negation is lost, so a store with only the open week uncached goes cold
asFastPath_Negated(uncached, day) == Len(uncached) = 1 /\ isWeekCompleted(uncached[1], day)

\* uncachedWeeks.length === 1 && !isWeekCompleted(uncachedWeeks[0])
asFastPath(uncached, day) == Len(uncached) = 1 /\ ~isWeekCompleted(uncached[1], day)

\* the loop from store r.li on, up to the next await or the return
RECURSIVE allStores_Loop(_, _, _)
allStores_Loop(r, cache, day) ==
  IF r.li > Len(Locations) THEN Return(r, r.results)
  ELSE
    LET loc == Locations[r.li]
        uncached == uncachedWeeks(cache, loc.importId, r.weeks, day)
        r1 == [r EXCEPT !.importId = loc.importId,
                        !.allCached = AllClosedCached(cache, loc.importId, r.weeks, day)]
    IN IF Len(uncached) = 0
       THEN allStores_Loop(
              [r1 EXCEPT !.li = @ + 1,
                         !.results = Append(@,
                            [store |-> loc,
                             trend |-> [i \in 1..Len(r.weeks) |->
                                cache[weekCacheKey(loc.importId, r.weeks[i].start)]]])],
              cache, day)
       ELSE IF asFastPath(uncached, day)
       THEN Issue([r1 EXCEPT !.trend = fastTrend(cache, loc.importId, r.weeks, day)],
                  "as_fast", Fetch(loc.importId, uncached[1].start, uncached[1].end))
       ELSE Issue(r1, "as_bulk",
                  Fetch(loc.importId, r.weeks[1].start, r.weeks[Len(r.weeks)].end))

getAllStoresWeeklyTrend_Call(p, weeksBack) ==
  /\ CanStart(p)
  /\ _locations' = Locations
  /\ LET weeks == WeeksOf(weeksBack, today)
         r0 == [IdleReq EXCEPT !.op = "getAllStoresWeeklyTrend",
                               !.weeksBack = weeksBack, !.weeks = weeks, !.li = 1]
     IN req' = [req EXCEPT ![p] = allStores_Loop(r0, _weekCache, today)]
  /\ UNCHANGED <<today, _weekCache, _savePending, cacheFile>>
  /\ UNCHANGED exceptTrend

getAllStoresWeeklyTrend_FastReturn(p, failAt) ==
  /\ Suspended(p, "as_fast")
  /\ failAt \in FailPages(req[p].fetch)
  /\ LET r == req[p]
         f == r.fetch
         cw == [start |-> f.start, end |-> f.end]
         orders == Fetched(f, failAt).orders
         idx == findIndex(r.weeks, cw)
         trend == [r.trend EXCEPT ![idx] =
                     [week |-> cw, summary |-> summarizeOrders(orders), error |-> NULL]]
         r1 == [r EXCEPT !.results = Append(@, [store |-> Locations[r.li], trend |-> trend]),
                         !.li = @ + 1]
     IN req' = [req EXCEPT ![p] = allStores_Loop(r1, _weekCache, today)]
  /\ UNCHANGED <<today, _weekCache, _savePending, cacheFile, _locations>>
  /\ UNCHANGED exceptTrend

getAllStoresWeeklyTrend_BulkReturn(p, failAt) ==
  /\ Suspended(p, "as_bulk")
  /\ failAt \in FailPages(req[p].fetch)
  /\ LET r == req[p]
         orders == Fetched(r.fetch, failAt).orders
         trend == bucketOrdersByWeek(orders, r.weeks)
         cache == cacheCompletedWeeks(_weekCache, r.importId, trend, today)
         r1 == [r EXCEPT !.results = Append(@, [store |-> Locations[r.li], trend |-> trend]),
                         !.li = @ + 1]
     IN /\ _weekCache' = cache
        /\ _savePending' = TRUE
        /\ req' = [req EXCEPT ![p] = allStores_Loop(r1, cache, today)]
  /\ UNCHANGED <<today, cacheFile, _locations>>
  /\ UNCHANGED exceptTrend

(***************************************************************************)
(* getDashboardData (flowhub.js 463-522).  r.weeks is <<lw, tw>>.          *)
(***************************************************************************)
\* the loop from store r.li on: read last week from the cache, fetch this week
dashboard_Loop(r, cache, day) ==
  IF r.li > Len(Locations) THEN Return(r, r.results)
  ELSE
    LET loc == Locations[r.li]
        lw == r.weeks[1]
        tw == r.weeks[2]
        lwCK == weekCacheKey(loc.importId, lw.start)
    IN Issue([r EXCEPT !.importId = loc.importId,
                       !.lwSummary = IF isWeekCompleted(lw, day) /\ lwCK \in DOMAIN cache
                                     THEN cache[lwCK].summary ELSE Null],
             "db_tw", Fetch(loc.importId, tw.start, tw.end))

\* storeData.push({...loc, thisWeek, lastWeek, today})
dashboard_Push(r, lwSummary) ==
  [r EXCEPT !.results = Append(@, [store |-> Locations[r.li], thisWeek |-> r.twSummary,
                                   lastWeek |-> lwSummary, today |-> r.todaySummary]),
            !.li = @ + 1]

getDashboardData_Call(p) ==
  /\ CanStart(p)
  /\ _locations' = Locations
  /\ LET r0 == [IdleReq EXCEPT !.op = "getDashboardData",
                               !.weeks = <<weekRange(1, today), weekRange(0, today)>>,
                               !.td = todayRange(today), !.li = 1]
     IN req' = [req EXCEPT ![p] = dashboard_Loop(r0, _weekCache, today)]
  /\ UNCHANGED <<today, _weekCache, _savePending, cacheFile>>
  /\ UNCHANGED exceptTrend

\* this week's fetch returns
getDashboardData_ThisWeek(p, failAt) ==
  /\ Suspended(p, "db_tw")
  /\ failAt \in FailPages(req[p].fetch)
  /\ LET r == req[p]
         lw == r.weeks[1]
         orders == Fetched(r.fetch, failAt).orders
         todayOrders == SelectSeq(orders, LAMBDA o : o.createdAt = r.td.start)
         r1 == [r EXCEPT !.twSummary = summarizeOrders(orders),
                         !.todaySummary = summarizeOrders(todayOrders)]
     IN req' = [req EXCEPT ![p] =
          IF r.lwSummary = Null
          THEN Issue(r1, "db_lw", Fetch(r.importId, lw.start, lw.end))
          ELSE dashboard_Loop(dashboard_Push(r1, r.lwSummary), _weekCache, today)]
  /\ UNCHANGED <<today, _weekCache, _savePending, cacheFile, _locations>>
  /\ UNCHANGED exceptTrend

\* last week's fetch returns (last week was not cached)
getDashboardData_LastWeek(p, failAt) ==
  /\ Suspended(p, "db_lw")
  /\ failAt \in FailPages(req[p].fetch)
  /\ LET r == req[p]
         lw == r.weeks[1]
         lwCK == weekCacheKey(r.importId, lw.start)
         lwSummary == summarizeOrders(Fetched(r.fetch, failAt).orders)
         entry == [week |-> lw, summary |-> lwSummary, error |-> NULL]
         store == shouldCache(entry, today)
         cache == IF store THEN cachePut(_weekCache, lwCK, entry) ELSE _weekCache
     IN /\ _weekCache' = cache
        /\ _savePending' = (_savePending \/ store)
        /\ req' = [req EXCEPT ![p] =
                     dashboard_Loop(dashboard_Push(r, lwSummary), cache, today)]
  /\ UNCHANGED <<today, cacheFile, _locations>>
  /\ UNCHANGED exceptTrend

(***************************************************************************)
(* The server: requests arrive and are served concurrently; every await is *)
(* a point where another request, the flush timer or midnight may run.     *)
(***************************************************************************)
Next ==
  \/ \E p \in Reqs, i \in ImportIds, n \in WeeksBackInputs : getWeeklyTrend_Call(p, i, n)
  \/ \E p \in Reqs : \E k \in FailPages(req[p].fetch) : getWeeklyTrend_FastReturn(p, k)
  \/ \E p \in Reqs : \E k \in FailPages(req[p].fetch) : getWeeklyTrend_BulkReturn(p, k)
  \/ \E p \in Reqs, op \in {"getAllStoresWeeklyTrend", "getDashboardData"} :
        getLocations_Throws(p, op)
  \/ \E p \in Reqs, n \in WeeksBackInputs : getAllStoresWeeklyTrend_Call(p, n)
  \/ \E p \in Reqs : \E k \in FailPages(req[p].fetch) : getAllStoresWeeklyTrend_FastReturn(p, k)
  \/ \E p \in Reqs : \E k \in FailPages(req[p].fetch) : getAllStoresWeeklyTrend_BulkReturn(p, k)
  \/ \E p \in Reqs : getDashboardData_Call(p)
  \/ \E p \in Reqs : \E k \in FailPages(req[p].fetch) : getDashboardData_ThisWeek(p, k)
  \/ \E p \in Reqs : \E k \in FailPages(req[p].fetch) : getDashboardData_LastWeek(p, k)
  \/ \E p \in Reqs : Respond(p)
  \/ \E ok \in BOOLEAN : FlushTimer(ok)
  \/ Midnight

(***************************************************************************)
(* The key-value store's lease (redis.acquireLock / redis.releaseLock): an *)
(* atomic set-if-absent with a time to live, and a delete by key.  The     *)
(* owner recorded in the entry is the worker whose call created it.        *)
(***************************************************************************)
NoLease == [owner |-> "none", expires |-> 0]

\* variant: the lease is granted without looking at the key
acquireLock_NoCheck(l, owner, t, ttl) ==
  [locked |-> TRUE, lease |-> [owner |-> owner, expires |-> t + ttl]]

\* acquireLeaseIfAbsent(key, ttl) -> bool
acquireLock(l, owner, t, ttl) ==
  IF l = NoLease
  THEN [locked |-> TRUE, lease |-> [owner |-> owner, expires |-> t + ttl]]
  ELSE [locked |-> FALSE, lease |-> l]

\* releaseLease(key): the entry is deleted, whoever created it
releaseLock(l) == NoLease

\* variant: the entry has no time to live
expire_Never(l, t) == l

\* the store drops an entry whose time to live has run out
expire(l, t) == IF l # NoLease /\ l.expires <= t THEN NoLease ELSE l

(***************************************************************************)
(* pLimit (rebuild.js 243-258) over the store tasks of one rebuild.        *)
(***************************************************************************)
Queued == [st |-> "queued"]
Running == [st |-> "running"]

\* locations.map(loc => limit(...)): each push calls next(), which starts the
\* task while fewer than CONCURRENCY are active
pLimit_start(n) == [i \in 1..n |-> IF i <= CONCURRENCY THEN Running ELSE Queued]

\* .finally(() => { active--; next(); }): the head of the queue starts
pLimit_next(tasks) ==
  LET q == {i \in 1..Len(tasks) : tasks[i].st = "queued"}
  IN IF q = {} THEN tasks
     ELSE [tasks EXCEPT ![CHOOSE i \in q : \A j \in q : i <= j] = Running]

(***************************************************************************)
(* fh.getTrendForStore(loc, weeks): the trend assembler over the given     *)
(* weeks, in a worker whose week cache is cold: one fetch of the whole     *)
(* range through getOrdersForLocation, bucketed by week.                   *)
(***************************************************************************)
getTrendForStore(loc, weeks, failAt) ==
  bucketOrdersByWeek(
     getOrdersForLocation(loc.importId, weeks[1].start, weeks[Len(weeks)].end,
                          failAt).orders,
     weeks)

\* the task limit() runs for a store: { store, trend, error: null }; its catch
\* would give { store, trend: null, error }, but getTrendForStore does not throw
storeTask(loc, weeks, failAt) ==
  [st |-> "done", store |-> loc, trend |-> {getTrendForStore(loc, weeks, failAt)},
   error |-> NULL]

\* stores[storeId].weeks for one store result
storeWeeks(result, weekStarts) ==
  IF result.trend = {}
  THEN [i \in 1..Len(weekStarts) |-> [week |-> weekStarts[i], error |-> result.error]]
  ELSE LET trend == CHOOSE t \in result.trend : TRUE
       IN [i \in 1..Len(trend) |->
             [week |-> trend[i].week.start, weekEnd |-> trend[i].week.end,
              summary |-> trend[i].summary,
              error |-> IF trend[i].error = "" THEN NULL ELSE trend[i].error]]

\* the payload: { weekStarts, stores }
buildPayload(storeResults, weeks) ==
  LET weekStarts == [i \in 1..Len(weeks) |-> weeks[i].start]
      ids == {storeResults[i].store.id : i \in 1..Len(storeResults)}
      of(id) == CHOOSE i \in 1..Len(storeResults) :
                   /\ storeResults[i].store.id = id
                   /\ \A j \in (i + 1)..Len(storeResults) : storeResults[j].store.id # id
  IN [weekStarts |-> weekStarts,
      stores |-> [id \in ids |-> [weeks |-> storeWeeks(storeResults[of(id)], weekStarts)]]]

(***************************************************************************)
(* rebuildTrendCache (rebuild.js 261-361), one invocation per worker.      *)
(***************************************************************************)
Workers == {"w1", "w2"}

IdleWorker ==
  [pc |-> "idle", status |-> "none", error |-> NULL, tasks |-> <<>>, payload |-> Null,
   \* history of the invocation, for the properties
   blockedBy |-> "none",   \* the owner of the lease when acquireLock was called
   locations |-> "none",   \* how getLocations ended: "ok" or "threw"
   failed |-> {},          \* the stores whose fetch lost a page request
   released |-> FALSE]     \* releaseLock has been called

\* between the successful acquireLock and the completion of releaseLock
BodyPcs == {"locations", "fetch", "write", "release"}

RebuildInit ==
  /\ now = 0
  /\ lease = NoLease
  /\ published = Null
  /\ wk = [w \in Workers |-> IdleWorker]

\* variant: an error leaves the function without the finally block
catchError_NoFinally(r, message) ==
  [r EXCEPT !.pc = "returned", !.status = "error", !.error = message]

\* variant: the message of the error is dropped
catchError_NoMessage(r, message) == [r EXCEPT !.pc = "release", !.status = "error"]

\* catch (err) { return { status: 'error' } } finally { await releaseLock }
catchError(r, message) ==
  [r EXCEPT !.pc = "release", !.status = "error", !.error = message]

\* variant: the early return sits inside the try block, so the finally runs
lockHeld_ThroughFinally(r) == [r EXCEPT !.pc = "release", !.status = "skipped"]

\* if (!locked) return { status: 'skipped', reason: 'lock_held' }
lockHeld(r) == [r EXCEPT !.pc = "returned", !.status = "skipped"]

\* const locked = await redis.acquireLock(LOCK_KEY, LOCK_TTL); if (!locked) return skipped
rebuildTrendCache_Acquire(w) ==
  /\ wk[w].pc = "idle"
  /\ LET a == acquireLock(lease, w, now, LOCK_TTL)
         r == [IdleWorker EXCEPT !.blockedBy = lease.owner]
     IN /\ lease' = a.lease
        /\ wk' = [wk EXCEPT ![w] =
                    IF a.locked THEN [r EXCEPT !.pc = "locations"]
                    ELSE lockHeld(r)]
  /\ UNCHANGED <<now, published>>
  /\ UNCHANGED exceptRebuild

\* await fh.getLocations() returns or throws; the store tasks are started
rebuildTrendCache_Locations(w, ok) ==
  /\ wk[w].pc = "locations"
  /\ wk' = [wk EXCEPT ![w] =
        IF ok
        THEN [@ EXCEPT !.pc = "fetch", !.locations = "ok",
                       !.tasks = pLimit_start(Len(Locations))]
        ELSE catchError([@ EXCEPT !.locations = "threw"], "Flowhub: max retries")]
  /\ UNCHANGED <<now, lease, published>>
  /\ UNCHANGED exceptRebuild

\* one store task settles; when all have, the payload is built and setJSON awaited
rebuildTrendCache_StoreDone(w, i, failAt) ==
  /\ wk[w].pc = "fetch"
  /\ i \in 1..Len(wk[w].tasks)
  /\ wk[w].tasks[i].st = "running"
  /\ LET weeks == WeeksOf(RebuildWeeksBack, today)
         loc == Locations[i]
         tasks == pLimit_next([wk[w].tasks EXCEPT ![i] = storeTask(loc, weeks, failAt)])
         failed == IF failAt = 0 THEN wk[w].failed ELSE wk[w].failed \cup {loc.id}
         settled == \A j \in 1..Len(tasks) : tasks[j].st = "done"
     IN /\ failAt \in 0..PagesOf(loc.importId, weeks[1].start, weeks[Len(weeks)].end)
        /\ wk' = [wk EXCEPT ![w] =
              IF settled
              THEN [@ EXCEPT !.pc = "write", !.tasks = tasks, !.failed = failed,
                             !.payload = buildPayload(tasks, weeks)]
              ELSE [@ EXCEPT !.tasks = tasks, !.failed = failed]]
  /\ UNCHANGED <<now, lease, published>>
  /\ UNCHANGED exceptRebuild

\* variant: a payload that was not written makes the rebuild an error
afterWrite_ErrorIfUnwritten(r, written) ==
  [r EXCEPT !.pc = "release", !.status = IF written THEN "ok" ELSE "error", !.tasks = <<>>]

\* written is only logged: return { status: 'ok', ... }, then the finally block
afterWrite(r, written) ==
  [r EXCEPT !.pc = "release", !.status = "ok", !.tasks = <<>>]

\* await redis.setJSON(CACHE_KEY, payload, CACHE_TTL) returns written; return ok
rebuildTrendCache_Written(w, written) ==
  /\ wk[w].pc = "write"
  /\ published' = IF written THEN wk[w].payload ELSE published
  /\ wk' = [wk EXCEPT ![w] = afterWrite(@, written)]
  /\ UNCHANGED <<now, lease>>
  /\ UNCHANGED exceptRebuild

\* finally: await redis.releaseLock(LOCK_KEY) completes and the function returns
rebuildTrendCache_Release(w) ==
  /\ wk[w].pc = "release"
  /\ lease' = releaseLock(lease)
  /\ wk' = [wk EXCEPT ![w] = [@ EXCEPT !.pc = "returned", !.released = TRUE]]
  /\ UNCHANGED <<now, published>>
  /\ UNCHANGED exceptRebuild

\* the caller has the result; the worker may be triggered again
rebuildTrendCache_Result(w) ==
  /\ wk[w].pc = "returned"
  /\ wk' = [v \in Workers |->
              IF v = w THEN IdleWorker
              ELSE IF wk[v].blockedBy = w THEN [wk[v] EXCEPT !.blockedBy = "none"]
              ELSE wk[v]]
  /\ UNCHANGED <<now, lease, published>>
  /\ UNCHANGED exceptRebuild

\* time passes; the store drops the lease when its time to live is over
Tick ==
  /\ now + TickSeconds <= MaxTime
  /\ now' = now + TickSeconds
  /\ lease' = expire(lease, now + TickSeconds)
  /\ UNCHANGED <<published, wk>>
  /\ UNCHANGED exceptRebuild

\* the last instant the wall clock of the model reaches
LastTick == (MaxTime \div TickSeconds) * TickSeconds

\* the process of the worker dies inside the try block: nothing of the
\* invocation runs any more, the finally block included
worker_Crash(w) ==
  /\ wk[w].pc \in BodyPcs
  /\ lease.owner = w
  /\ lease.expires <= LastTick
  /\ wk' = [wk EXCEPT ![w] = [@ EXCEPT !.pc = "crashed"]]
  /\ UNCHANGED <<now, lease, published>>
  /\ UNCHANGED exceptRebuild

\* the steps of one worker whose fetches and writes succeed
WorkerStep(w) ==
  \/ rebuildTrendCache_Acquire(w)
  \/ rebuildTrendCache_Locations(w, TRUE)
  \/ \E i \in 1..Len(Locations) : rebuildTrendCache_StoreDone(w, i, 0)
  \/ rebuildTrendCache_Written(w, TRUE)
  \/ rebuildTrendCache_Release(w)
  \/ rebuildTrendCache_Result(w)

\* the workers with worker w1 liable to die while it holds the lease
NextCrash ==
  \/ \E w \in Workers : WorkerStep(w)
  \/ worker_Crash("w1")
  \/ Tick

NextRebuild ==
  \/ \E w \in Workers : rebuildTrendCache_Acquire(w)
  \/ \E w \in Workers, ok \in BOOLEAN : rebuildTrendCache_Locations(w, ok)
  \/ \E w \in Workers, i \in 1..Len(Locations), k \in 0..MaxPages :
        rebuildTrendCache_StoreDone(w, i, k)
  \/ \E w \in Workers, written \in BOOLEAN : rebuildTrendCache_Written(w, written)
  \/ \E w \in Workers : rebuildTrendCache_Release(w)
  \/ \E w \in Workers : rebuildTrendCache_Result(w)
  \/ Tick

(***************************************************************************)
(* flowhubGet (flowhub.js 30-67), with the gap between calls that the      *)
(* client keeps in _lastApi (README.md 139-141).  A response body is its   *)
(* length in characters.                                                   *)
(***************************************************************************)
MAX_ATTEMPTS == 5
BACKOFF_BASE == 1500
BACKOFF_CAP == 20000
BODY_LIMIT == 300
MIN_GAP == 300

\* the statuses the upstream answers with, and the lengths of its error bodies
Statuses == {200, 404, 429, 500, 503}
BodyLens == {0, BODY_LIMIT + 50}

Callers == {"c1", "c2"}

RECURSIVE Pow2(_)
Pow2(n) == IF n = 0 THEN 1 ELSE 2 * Pow2(n - 1)

\* Math.min(1500 * Math.pow(2, attempt), 20000)
backoffDelay(attempt) ==
  IF BACKOFF_BASE * Pow2(attempt) <= BACKOFF_CAP
  THEN BACKOFF_BASE * Pow2(attempt) ELSE BACKOFF_CAP

\* res.ok
resOk(status) == status >= 200 /\ status <= 299

\* variant: the body is put into the message whole
slice_Whole(len, n) == len

\* body.slice(0, n)
slice(len, n) == IF len <= n THEN len ELSE n

\* what the loop body does with a response
onResponse(status, attempt) ==
  IF status = 429 THEN "continue"
  ELSE IF status = 500 /\ attempt < 4 THEN "continue"
  ELSE IF ~resOk(status) THEN "throw"
  ELSE "return"

IdleCall ==
  [pc |-> "idle", attempt |-> 0, wake |-> 0, result |-> Null,
   \* history of the call, for the properties
   requests |-> 0,     \* HTTP requests sent
   waits |-> <<>>,     \* the backoff delays slept, in order
   status |-> 0,       \* status of the last response
   bodyLen |-> 0]      \* length of the last response's body

FlowhubInit ==
  /\ clk = StartClock
  /\ _lastApi = 0
  /\ call = [c \in Callers |-> IdleCall]
  /\ prevSend = -1
  /\ lastSend = -1

\* await fetch(url, ...): the request goes out
sendRequest(r) == [r EXCEPT !.pc = "fetch", !.requests = @ + 1]

\* the call starts: it sleeps for what is left of the gap, or passes at once
flowhubGet_Call(c) ==
  /\ call[c].pc = "idle"
  /\ LET gap == MIN_GAP - (clk - _lastApi)
     IN IF gap > 0
        THEN /\ call' = [call EXCEPT ![c] = [IdleCall EXCEPT !.pc = "gap", !.wake = clk + gap]]
             /\ UNCHANGED <<_lastApi, prevSend, lastSend>>
        ELSE /\ _lastApi' = clk
             /\ call' = [call EXCEPT ![c] = sendRequest(IdleCall)]
             /\ prevSend' = lastSend
             /\ lastSend' = clk
  /\ UNCHANGED clk
  /\ UNCHANGED exceptFlowhub

\* sleep(gap) is over: _lastApi = Date.now(), and the first request goes out
flowhubGet_GapOver(c) ==
  /\ call[c].pc = "gap"
  /\ clk >= call[c].wake
  /\ _lastApi' = clk
  /\ call' = [call EXCEPT ![c] = sendRequest(@)]
  /\ prevSend' = lastSend
  /\ lastSend' = clk
  /\ UNCHANGED clk
  /\ UNCHANGED exceptFlowhub

\* a response arrives: return, throw, or continue with the next attempt
flowhubGet_Response(c, status, bodyLen) ==
  /\ call[c].pc = "fetch"
  \* the body is read only where the error is built (res.text(), line 61)
  /\ onResponse(status, call[c].attempt) # "throw" => bodyLen = 0
  /\ LET r == [call[c] EXCEPT !.status = status, !.bodyLen = bodyLen]
         todo == onResponse(status, r.attempt)
         attempt == r.attempt + 1
     IN call' = [call EXCEPT ![c] =
          IF todo = "return" THEN [r EXCEPT !.pc = "done", !.result = [kind |-> "ok"]]
          ELSE IF todo = "throw"
          THEN [r EXCEPT !.pc = "done",
                         !.result = [kind |-> "status", status |-> status,
                                     body |-> slice(bodyLen, BODY_LIMIT)]]
          ELSE IF attempt < MAX_ATTEMPTS
          THEN [r EXCEPT !.pc = "backoff", !.attempt = attempt,
                         !.wake = clk + backoffDelay(attempt),
                         !.waits = Append(@, backoffDelay(attempt))]
          ELSE [r EXCEPT !.pc = "done", !.attempt = attempt,
                         !.result = [kind |-> "max retries"]]]
  /\ UNCHANGED <<clk, _lastApi, prevSend, lastSend>>
  /\ UNCHANGED exceptFlowhub

\* sleep(delay) is over: the next request goes out
flowhubGet_BackoffOver(c) ==
  /\ call[c].pc = "backoff"
  /\ clk >= call[c].wake
  /\ call' = [call EXCEPT ![c] = sendRequest(@)]
  /\ prevSend' = lastSend
  /\ lastSend' = clk
  /\ UNCHANGED <<clk, _lastApi>>
  /\ UNCHANGED exceptFlowhub

\* the caller has the result or the error; while callers arrive it may call
\* again
flowhubGet_Result(c) ==
  /\ call[c].pc = "done"
  /\ clk < StartClock + ArrivalWindow
  /\ call' = [call EXCEPT ![c] = IdleCall]
  /\ UNCHANGED <<clk, _lastApi, prevSend, lastSend>>
  /\ UNCHANGED exceptFlowhub

\* time passes: a little, while callers may still arrive, or up to a timer
TimePasses(dt) ==
  /\ dt > 0
  /\ \/ dt = GapTick /\ clk + dt <= StartClock + ArrivalWindow
     \/ \E c \in Callers : call[c].pc \in {"gap", "backoff"} /\ call[c].wake = clk + dt
  /\ clk + dt <= MaxClock
  /\ clk' = clk + dt
  /\ UNCHANGED <<_lastApi, call, prevSend, lastSend>>
  /\ UNCHANGED exceptFlowhub

NextFlowhub ==
  \/ \E c \in Callers : flowhubGet_Call(c)
  \/ \E c \in Callers : flowhubGet_GapOver(c)
  \/ \E c \in Callers, status \in Statuses, n \in BodyLens \cup {0} :
        flowhubGet_Response(c, status, n)
  \/ \E c \in Callers : flowhubGet_BackoffOver(c)
  \/ \E c \in Callers : flowhubGet_Result(c)
  \/ \E dt \in {GapTick} \cup {call[c].wake - clk : c \in Callers} : TimePasses(dt)

(***************************************************************************)
(* getOrdersForLocation (flowhub.js 145-183), one page request per step.   *)
(***************************************************************************)
\* the days a requested range may start and end on
RangeDays == 0..(FirstDay + DaysAhead)

IdlePaging ==
  [pc |-> "idle", importId |-> "", start |-> 0, end |-> 0,
   page |-> 1, allOrders |-> <<>>, total |-> 0, result |-> Null,
   \* history of the call, for the properties
   pages |-> <<>>,       \* the page numbers requested, in order
   failed |-> FALSE]     \* a page request threw

PagingInit == pg = IdlePaging

\* variant: the loop stops after every page
lastPage_Always(allOrders, total, batch) == TRUE

\* if (allOrders.length >= total || batch.length < PAGE_SIZE) break
lastPage(allOrders, total, batch) ==
  Len(allOrders) >= total \/ Len(batch) < PAGE_SIZE

\* variant: a page number is skipped
nextPage_Skip(page) == page + 2

\* page++
nextPage(page) == page + 1

getOrdersForLocation_Call(importId, start, end) ==
  /\ pg.pc = "idle"
  /\ start <= end
  /\ pg' = [IdlePaging EXCEPT !.pc = "page", !.importId = importId,
                              !.start = start, !.end = end]
  /\ UNCHANGED exceptPaging

\* flowhubGet returns the page: accumulate, then break or page++
getOrdersForLocation_Page ==
  /\ pg.pc = "page"
  /\ LET data == UpstreamPage(pg.importId, pg.start, pg.end, pg.page)
         batch == data.orders
         total == data.total
         allOrders == pg.allOrders \o batch
         r == [pg EXCEPT !.allOrders = allOrders, !.total = total,
                         !.pages = Append(@, pg.page)]
     IN pg' = IF lastPage(allOrders, total, batch)
              THEN [r EXCEPT !.pc = "done",
                             !.result = [total |-> Len(allOrders), orders |-> allOrders]]
              ELSE [r EXCEPT !.page = nextPage(@)]
  /\ UNCHANGED exceptPaging

\* flowhubGet throws: the catch logs and breaks
getOrdersForLocation_Catch ==
  /\ pg.pc = "page"
  /\ pg' = [pg EXCEPT !.pc = "done", !.failed = TRUE,
                      !.pages = Append(@, pg.page),
                      !.result = [total |-> Len(pg.allOrders), orders |-> pg.allOrders]]
  /\ UNCHANGED exceptPaging

\* the caller has the result
getOrdersForLocation_Return ==
  /\ pg.pc = "done"
  /\ pg' = IdlePaging
  /\ UNCHANGED exceptPaging

NextPaging ==
  \/ \E importId \in ImportIds, start \in RangeDays, end \in RangeDays :
        getOrdersForLocation_Call(importId, start, end)
  \/ getOrdersForLocation_Page
  \/ getOrdersForLocation_Catch
  \/ getOrdersForLocation_Return

(***************************************************************************)
(* summarizeOrders and bucketOrdersByWeek applied to order lists drawn     *)
(* from a pool with voided orders, voided line items, equal net sales and  *)
(* orders dated on the first and the last day of a week.                   *)
(***************************************************************************)
SampleOrders ==
  { Order(1, 6, FALSE, "ann", << Item("Flower", 1, 5000, {}) >>),
    Order(2, 7, FALSE, "bob", << Item("Vape", 1, 5000, {}) >>),
    Order(3, 13, TRUE, "ann", << Item("Flower", 1, 7000, {}) >>),
    [Order(4, 14, FALSE, "bob",
           << [Item("Edible", 1, 2000, {}) EXCEPT !.voided = TRUE],
              Item("Flower", 2, 3000, {500}) >>) EXCEPT !.customerType = "med"],
    [Order(5, 20, FALSE, "cy", << Item("Edible", 1, 1000, {}) >>)
        EXCEPT !.orderStatus = "voided"],
    Order(6, 21, FALSE, "ann", << Item("Vape", 1, 4000, {}) >>) }

OrderLists == UNION {[1..n -> SampleOrders] : n \in 0..MaxOrders}

\* three live orders with gross/discount 100/10, 80/0 and 60/5
ScenarioOrders ==
  << Order(7, 8, FALSE, "ann", << Item("Flower", 1, 100, {10}) >>),
     Order(8, 9, FALSE, "bob", << Item("Vape", 1, 80, {0}) >>),
     Order(9, 10, FALSE, "cy", << Item("Edible", 1, 60, {5}) >>) >>

\* line items priced in the three ways the API returns them: totalPrice alone,
\* totalPrice 0 next to a unitPrice (a comped item), and unitPrice alone
PricingOrders ==
  { Order(10, 8, FALSE, "ann", << Item("Flower", 1, 4000, {}) >>),
    Order(11, 9, FALSE, "bob",
          << [Item("Vape", 2, 0, {}) EXCEPT !.unitPrice = {1500}] >>),
    Order(12, 10, FALSE, "cy",
          << [Item("Edible", 3, 0, {}) EXCEPT !.totalPrice = {}, !.unitPrice = {700}] >>) }

PricingLists == UNION {[1..n -> PricingOrders] : n \in 0..MaxOrders}

\* lists of consecutive weeks, the last one ending on day FirstDay
WeekLists == {WeeksOf(n, FirstDay) : n \in 1..MaxWeeksBack}

SampleInit ==
  /\ inOrders = <<>>
  /\ inWeeks = <<>>
  /\ ret = Null

SampleInputs ==
  /\ inOrders \in OrderLists \cup {ScenarioOrders}
  /\ inWeeks \in WeekLists
  /\ ret = Null

PricingInputs ==
  /\ inOrders \in PricingLists
  /\ inWeeks \in WeekLists
  /\ ret = Null

summarizeOrders_Apply ==
  /\ ret = Null
  /\ ret' = [op |-> "summarizeOrders", summary |-> summarizeOrders(inOrders)]
  /\ UNCHANGED <<inOrders, inWeeks>>
  /\ UNCHANGED exceptSample

bucketOrdersByWeek_Apply ==
  /\ ret = Null
  /\ ret' = [op |-> "bucketOrdersByWeek", trend |-> bucketOrdersByWeek(inOrders, inWeeks)]
  /\ UNCHANGED <<inOrders, inWeeks>>
  /\ UNCHANGED exceptSample

NextSample ==
  \/ summarizeOrders_Apply
  \/ bucketOrdersByWeek_Apply

\* the current days weekRange is applied on: every day of several weeks
DayInputs == {5 * 7 + d : d \in 0..(MaxDays - 1)}

DayInit ==
  /\ today \in DayInputs
  /\ _weekCache = EmptyCache
  /\ _savePending = FALSE
  /\ cacheFile = EmptyCache
  /\ _locations = Null
  /\ req = [p \in Reqs |-> IdleReq]

\* weekRange(weeksBack) and weekRange(weeksBack + 1) on the same day
weekRange_Apply(weeksBack) ==
  /\ ret = Null
  /\ ret' = [op |-> "weekRange", weeksBack |-> weeksBack,
             week |-> weekRange(weeksBack, today),
             before |-> weekRange(weeksBack + 1, today),
             completed |-> isWeekCompleted(weekRange(weeksBack, today), today)]
  /\ UNCHANGED <<inOrders, inWeeks>>
  /\ UNCHANGED exceptSample

NextWeeks == \E weeksBack \in 0..MaxWeeksBack : weekRange_Apply(weeksBack)

(***************************************************************************)
(* The serving layer: cached() (index.js 33-39) behind GET /api/trend and  *)
(* GET /api/trend/:storeId (71-100), and getCachedTrend (rebuild.js        *)
(* 363-366).  The computation fn() is fh.getAllStoresWeeklyTrend or        *)
(* fh.getWeeklyTrend; here it is the value it resolves with, tagged with   *)
(* the reader whose call started it.                                       *)
(***************************************************************************)
Readers == {"rd1", "rd2"}

\* `trend_all_${weeks}` and `trend_${loc.id}_${weeks}`
TrendKeys == {<<"trend_all", MaxWeeksBack>>, <<"trend", "cactus", MaxWeeksBack>>}

IdleReader == [pc |-> "idle", op |-> "none", key |-> <<>>, answer |-> Null]

ServeInit ==
  /\ nodeCache = [k \in TrendKeys |-> {}]
  /\ rd = [r \in Readers |-> IdleReader]

\* const result = await fn(): the computation starts and the reader awaits it
cacheMiss(r, key) ==
  [pc |-> "awaiting", op |-> "cached", key |-> key, answer |-> Null]

\* the route calls cached(key, ttl, fn): a hit is returned, a miss runs fn()
cached_Call(r, key) ==
  /\ rd[r].pc = "idle"
  /\ rd' = [rd EXCEPT ![r] =
        IF nodeCache[key] # {}
        THEN [pc |-> "done", op |-> "cached", key |-> key,
              answer |-> CHOOSE hit \in nodeCache[key] : TRUE]
        ELSE cacheMiss(r, key)]
  /\ UNCHANGED nodeCache
  /\ UNCHANGED exceptServe

\* fn() resolves: cache.set(key, result, ttl), res.json(data); or it throws
\* and the route answers 500
cached_Settled(r, ok) ==
  /\ rd[r].pc = "awaiting"
  /\ LET result == [key |-> rd[r].key, by |-> r]
     IN IF ok
        THEN /\ nodeCache' = [nodeCache EXCEPT ![rd[r].key] = {result}]
             /\ rd' = [rd EXCEPT ![r] = [@ EXCEPT !.pc = "done", !.answer = result]]
        ELSE /\ rd' = [rd EXCEPT ![r] = [@ EXCEPT !.pc = "done", !.answer = [error |-> "500"]]]
             /\ UNCHANGED nodeCache
  /\ UNCHANGED exceptServe

\* the entry's time to live is over
nodeCache_Expire(key) ==
  /\ nodeCache[key] # {}
  /\ nodeCache' = [nodeCache EXCEPT ![key] = {}]
  /\ UNCHANGED rd
  /\ UNCHANGED exceptServe

\* getCachedTrend(): return redis.getJSON(CACHE_KEY)
getCachedTrend_Read(r) ==
  /\ rd[r].pc = "idle"
  /\ rd' = [rd EXCEPT ![r] =
        [pc |-> "done", op |-> "getCachedTrend", key |-> <<>>, answer |-> published]]
  /\ UNCHANGED nodeCache
  /\ UNCHANGED exceptServe

\* the response is sent
reader_Respond(r) ==
  /\ rd[r].pc = "done"
  /\ rd' = [rd EXCEPT ![r] = IdleReader]
  /\ UNCHANGED nodeCache
  /\ UNCHANGED exceptServe

\* the readers, and one worker rebuilding the shared payload
NextServe ==
  \/ \E r \in Readers, key \in TrendKeys : cached_Call(r, key)
  \/ \E r \in Readers, ok \in BOOLEAN : cached_Settled(r, ok)
  \/ \E key \in TrendKeys : nodeCache_Expire(key)
  \/ \E r \in Readers : getCachedTrend_Read(r)
  \/ \E r \in Readers : reader_Respond(r)
  \/ rebuildTrendCache_Acquire("w1")
  \/ rebuildTrendCache_Locations("w1", TRUE)
  \/ \E i \in 1..Len(Locations) : rebuildTrendCache_StoreDone("w1", i, 0)
  \/ \E written \in BOOLEAN : rebuildTrendCache_Written("w1", written)
  \/ rebuildTrendCache_Release("w1")
  \/ rebuildTrendCache_Result("w1")

(***************************************************************************)
(* pLimit(CONCURRENCY) (rebuild.js 243-258): limit(fn) pushes the task and *)
(* calls next(); a task that settles decrements active and calls next().   *)
(***************************************************************************)
Tasks == 1..MaxTasks

LimitInit ==
  /\ active = 0
  /\ queue = <<>>
  /\ task = [i \in Tasks |-> "new"]

\* variant: next() starts the head of the queue whatever active is
next_NoLimit(a, q, t) ==
  IF Len(q) = 0 THEN [active |-> a, queue |-> q, task |-> t]
  ELSE [active |-> a + 1, queue |-> Tail(q), task |-> [t EXCEPT ![Head(q)] = "running"]]

\* function next(): if (active >= concurrency || queue.length === 0) return;
\* active++; queue.shift(); fn()
next(a, q, t) ==
  IF a >= CONCURRENCY \/ Len(q) = 0 THEN [active |-> a, queue |-> q, task |-> t]
  ELSE [active |-> a + 1, queue |-> Tail(q), task |-> [t EXCEPT ![Head(q)] = "running"]]

\* limit(fn) for the next location of locations.map: queue.push, next()
limit_Call(i) ==
  /\ task[i] = "new"
  /\ \A j \in Tasks : j < i => task[j] # "new"
  /\ LET n == next(active, Append(queue, i), [task EXCEPT ![i] = "queued"])
     IN /\ active' = n.active
        /\ queue' = n.queue
        /\ task' = n.task
  /\ UNCHANGED exceptLimit

\* variant: the slot is freed in a then() callback, which a rejection skips
onSettled_ThenOnly(a, q, t, ok) ==
  IF ok THEN next(a - 1, q, t) ELSE [active |-> a, queue |-> q, task |-> t]

\* .finally(() => { active--; next(); }): runs after a resolve and after a reject
onSettled(a, q, t, ok) == next(a - 1, q, t)

\* fn() settles: .then(resolve, reject).finally(() => { active--; next(); })
limit_Settled(i, ok) ==
  /\ task[i] = "running"
  /\ LET n == onSettled(active, queue,
                        [task EXCEPT ![i] = IF ok THEN "resolved" ELSE "rejected"], ok)
     IN /\ active' = n.active
        /\ queue' = n.queue
        /\ task' = n.task
  /\ UNCHANGED exceptLimit

NextLimit ==
  \/ \E i \in Tasks : limit_Call(i)
  \/ \E i \in Tasks, ok \in BOOLEAN : limit_Settled(i, ok)

(***************************************************************************)
(* loadWeekCache and saveWeekCache (flowhub.js 293-322) over restarts of   *)
(* the process, with the file damaged or unwritable at times.              *)
(***************************************************************************)
SaveInit ==
  /\ fileState = "absent"
  /\ boot = [status |-> "up", file |-> "absent"]
  /\ timers = 0
  /\ burst = [calls |-> 0, writes |-> 0, wrote |-> "none", armed |-> EmptyCache]

\* the closed weeks a caller may store: store A, the weeks before FirstDay's
SaveKeys == {<<"A", WeeksOf(3, FirstDay)[i]>> : i \in 1..2}

\* variant: the error of a damaged file leaves the function
loadWeekCache_Throws(state, content) ==
  IF state = "ok" THEN [cache |-> content, threw |-> FALSE]
  ELSE IF state = "absent" THEN [cache |-> EmptyCache, threw |-> FALSE]
  ELSE [cache |-> EmptyCache, threw |-> TRUE]

\* try { if (existsSync) _weekCache = JSON.parse(readFileSync) }
\* catch { _weekCache = {} }
loadWeekCache(state, content) ==
  IF state = "ok" THEN [cache |-> content, threw |-> FALSE]
  ELSE [cache |-> EmptyCache, threw |-> FALSE]

\* variant: every call arms a timer
saveWeekCache_NoGuard(pending, n) == [pending |-> TRUE, timers |-> n + 1]

\* if (_savePending) return; _savePending = true; setTimeout(..., 3000)
saveWeekCache(pending, n) ==
  IF pending THEN [pending |-> pending, timers |-> n]
  ELSE [pending |-> TRUE, timers |-> n + 1]

\* a trend call stores a closed week and calls saveWeekCache()
weekCache_StoreAndSave(importId, week) ==
  /\ boot.status = "up"
  /\ burst.calls < MaxCalls
  /\ LET entry == [week |-> week, summary |-> FullSummary(importId, week), error |-> NULL]
         sv == saveWeekCache(_savePending, timers)
     IN /\ _weekCache' = cachePut(_weekCache, weekCacheKey(importId, week.start), entry)
        /\ _savePending' = sv.pending
        /\ timers' = sv.timers
        /\ burst' = IF sv.timers > timers
                    THEN [calls |-> 1, writes |-> 0, wrote |-> "none", armed |-> _weekCache']
                    ELSE [burst EXCEPT !.calls = @ + 1]
  /\ UNCHANGED <<today, cacheFile, _locations, req, fileState, boot>>
  /\ UNCHANGED exceptSave

\* variant: the cache is serialised when the timer is armed
flushed_WhenArmed(cache, armed) == armed

\* JSON.stringify(_weekCache) inside the timer callback: the cache as it is
\* when the timer runs, not as it was when saveWeekCache armed it
flushed(cache, armed) == cache

\* the timer runs: _savePending = false; try { writeFileSync } catch { log }
saveWeekCache_Timer(ok) ==
  /\ timers > 0
  /\ timers' = timers - 1
  /\ _savePending' = FALSE
  /\ burst' = [burst EXCEPT !.writes = @ + 1, !.wrote = IF ok THEN "ok" ELSE "failed"]
  /\ cacheFile' = IF ok THEN flushed(_weekCache, burst.armed) ELSE cacheFile
  /\ fileState' = IF ok THEN "ok" ELSE fileState
  /\ UNCHANGED <<today, _weekCache, _locations, req, boot>>
  /\ UNCHANGED exceptSave

\* the file is truncated or overwritten, or its permissions are lost
file_Damaged(state) ==
  /\ state \in {"corrupt", "unreadable"}
  /\ fileState # state
  /\ fileState' = state
  /\ UNCHANGED <<boot, timers, burst>>
  /\ UNCHANGED trendVars
  /\ UNCHANGED exceptSave

\* the process starts again: the module state is initialised and
\* loadWeekCache() runs (line 322)
process_Restart ==
  /\ LET ld == loadWeekCache(fileState, cacheFile)
     IN /\ _weekCache' = ld.cache
        /\ boot' = [status |-> IF ld.threw THEN "threw" ELSE "up", file |-> fileState]
  /\ _savePending' = FALSE
  /\ timers' = 0
  /\ burst' = [calls |-> 0, writes |-> 0, wrote |-> "none", armed |-> EmptyCache]
  /\ _locations' = Null
  /\ UNCHANGED <<today, cacheFile, req, fileState>>
  /\ UNCHANGED exceptSave

\* the week cache and its file, beside one worker rebuilding the payload
NextPersist ==
  \/ \E k \in SaveKeys : weekCache_StoreAndSave(k[1], k[2])
  \/ \E ok \in BOOLEAN : saveWeekCache_Timer(ok)
  \/ \E state \in {"corrupt", "unreadable"} : file_Damaged(state)
  \/ process_Restart
  \/ rebuildTrendCache_Acquire("w1")
  \/ rebuildTrendCache_Locations("w1", TRUE)
  \/ \E i \in 1..Len(Locations) : rebuildTrendCache_StoreDone("w1", i, 0)
  \/ \E written \in BOOLEAN : rebuildTrendCache_Written("w1", written)
  \/ rebuildTrendCache_Release("w1")
  \/ rebuildTrendCache_Result("w1")

InitSample ==
  /\ TrendInit /\ RebuildInit /\ FlowhubInit /\ PagingInit /\ SampleInputs
  /\ ServeInit /\ LimitInit /\ SaveInit

InitPricing ==
  /\ TrendInit /\ RebuildInit /\ FlowhubInit /\ PagingInit /\ PricingInputs
  /\ ServeInit /\ LimitInit /\ SaveInit

InitWeeks ==
  /\ DayInit /\ RebuildInit /\ FlowhubInit /\ PagingInit /\ SampleInit
  /\ ServeInit /\ LimitInit /\ SaveInit

Init ==
  /\ TrendInit /\ RebuildInit /\ FlowhubInit /\ PagingInit /\ SampleInit
  /\ ServeInit /\ LimitInit /\ SaveInit

\* the dashboard server
Spec == Init /\ [][Next]_vars

\* the rebuild workers
SpecRebuild == Init /\ [][NextRebuild]_vars

\* the workers, one of which may die; time passes, and the scheduler keeps
\* triggering the workers that live
SpecCrash ==
  /\ Init /\ [][NextCrash]_vars
  /\ WF_vars(Tick)
  /\ \A w \in Workers \ {"w1"} :
        WF_vars(rebuildTrendCache_Acquire(w)) /\ WF_vars(rebuildTrendCache_Result(w))

\* the callers of the HTTP client
SpecFlowhub == Init /\ [][NextFlowhub]_vars

\* one caller of getOrdersForLocation
SpecPaging == Init /\ [][NextPaging]_vars

\* the week cache and its file over restarts, beside one rebuilding worker
SpecPersist == Init /\ [][NextPersist]_vars

\* the store tasks of one limiter
SpecLimit == Init /\ [][NextLimit]_vars

\* the same, where every task that was started settles in the end
SpecLimitFair ==
  /\ Init /\ [][NextLimit]_vars
  /\ \A i \in Tasks : WF_vars(\E ok \in BOOLEAN : limit_Settled(i, ok))

\* the readers of the serving layer beside one rebuilding worker
SpecServe == Init /\ [][NextServe]_vars

\* summarizeOrders and bucketOrdersByWeek on every order list of the pool
SpecSample == InitSample /\ [][NextSample]_vars

\* summarizeOrders and bucketOrdersByWeek on every list of priced orders
SpecPricing == InitPricing /\ [][NextSample]_vars

\* weekRange on every day of several weeks
SpecWeeks == InitWeeks /\ [][NextWeeks]_vars

(***************************************************************************)
(* Properties of the rebuild coordinator.                                  *)
(***************************************************************************)
\* C1: at most one rebuildTrendCache invocation is at any time between its
\* successful acquireLock and its releaseLock, however long the body runs.
C1_MutualExclusion ==
  Cardinality({w \in Workers : wk[w].pc \in BodyPcs}) <= 1

\* C2 as stated: when a call attempted acquireLock while another invocation
\* held the lease, and both have returned, the attempting call returned
\* 'skipped' and the holder returned 'ok'.
C2_OneOkOneSkipped ==
  \A v \in Workers :
     (wk[v].blockedBy # "none" /\ wk[wk[v].blockedBy].pc = "returned") =>
        /\ wk[v].status = "skipped"
        /\ wk[wk[v].blockedBy].status = "ok"

\* C2, amended: a call that attempts acquireLock while another invocation
\* holds the lease returns 'skipped' without entering the body; the holder is
\* then inside its body and returns 'ok', or 'error' when its body threw
\* (getLocations failed), and never 'skipped'.
C2_SkippedAndOkOrError ==
  \A v \in Workers :
     wk[v].blockedBy # "none" =>
        LET h == wk[wk[v].blockedBy]
        IN /\ wk[v].pc = "returned" /\ wk[v].status = "skipped"
           /\ wk[v].locations = "none" /\ wk[v].payload = Null
           /\ h.pc \in BodyPcs \cup {"returned"}
           /\ h.pc = "returned" =>
                 /\ h.status \in {"ok", "error"}
                 /\ h.status = "error" <=> h.locations = "threw"
                 /\ h.status = "ok" <=> h.payload # Null

\* a call was skipped because of the lease of an invocation that returned 'ok'
C2_Witness ==
  \E v \in Workers :
     /\ wk[v].blockedBy # "none" /\ wk[v].status = "skipped"
     /\ wk[wk[v].blockedBy].pc = "returned"
     /\ wk[wk[v].blockedBy].status = "ok"

\* C3: an invocation that acquired the lease and has returned, with status
\* 'ok' or with status 'error', has called releaseLock, and the lease it
\* acquired is no longer held.
C3_ReleasedOnBothExits ==
  \A w \in Workers :
     (wk[w].pc = "returned" /\ wk[w].status \in {"ok", "error"}) =>
        /\ wk[w].released
        /\ lease.owner # w

\* one invocation has returned 'ok' and another has returned 'error'; both
\* have released
C3_Witness ==
  \E w, v \in Workers :
     /\ wk[w].pc = "returned" /\ wk[w].status = "ok" /\ wk[w].released
     /\ wk[v].pc = "returned" /\ wk[v].status = "error" /\ wk[v].released

\* C4: in the payload of a rebuild that returns 'ok', every week entry of a
\* store whose fetch failed carries a non-null error, and every other store
\* carries the summaries of its weeks' complete records with no error.
C4_FailedStoreCarriesError ==
  \A w \in Workers :
     wk[w].status = "ok" =>
        \A i \in 1..Len(Locations) :
           LET loc == Locations[i]
               ws == wk[w].payload.stores[loc.id].weeks
           IN IF loc.id \in wk[w].failed
              THEN \A j \in 1..Len(ws) : ws[j].error # NULL
              ELSE \A j \in 1..Len(ws) :
                      /\ ws[j].error = NULL
                      /\ ws[j].summary =
                           FullSummary(loc.importId,
                                       [start |-> ws[j].week, end |-> ws[j].weekEnd])

(***************************************************************************)
(* Properties of the week cache and of the trend assembly.                 *)
(***************************************************************************)
\* a getOrdersForLocation call of a trend request is outstanding
InFlight(p) == req[p].pc \in {"wt_fast", "wt_bulk", "as_fast", "as_bulk"}

\* the date range of fetch f contains the week
Covers(f, week) == f.start <= week.start /\ week.end <= f.end

\* C5: a fetch that loses a page after earlier pages succeeded is discarded as
\* a unit, so a week-cache entry never holds the summary of a partial record
\* set: every cached summary is the summary of the week's complete records.
C5_PartialFetchNeverCached ==
  \A k \in DOMAIN _weekCache :
     _weekCache[k].summary = FullSummary(k[1], _weekCache[k].week)

\* C6: every entry put into the week cache belongs to a week that is closed
\* (week.end < today) at the moment of the write and has net_sales > 0, under
\* the key of its store and week start; so a closed week whose net_sales is 0
\* produces no entry, and every entry present is of a closed week.
C6_CacheOnlyClosedPositive ==
  [][\A k \in DOMAIN _weekCache' :
        LET e == _weekCache'[k]
        IN /\ e.week.end < today'
           /\ e.summary.net_sales > 0
           /\ (k \notin DOMAIN _weekCache \/ _weekCache[k] # e) =>
                 /\ e.week.end < today
                 /\ k = weekCacheKey(k[1], e.week.start)]_trendVars

\* a bulk getWeeklyTrend has returned: a closed week with sales was cached and
\* a closed week whose only order is voided (net_sales 0) was not
C6_Witness ==
  \E p \in Reqs :
     /\ req[p].pc = "done" /\ req[p].op = "getWeeklyTrend"
     /\ \E i, j \in 1..Len(req[p].results) :
          /\ req[p].results[i].week.end < today
          /\ req[p].results[i].summary.net_sales = 0
          /\ req[p].results[i].summary.transaction_count > 0
          /\ weekCacheKey(req[p].importId, req[p].results[i].week.start)
                \notin DOMAIN _weekCache
          /\ weekCacheKey(req[p].importId, req[p].results[j].week.start)
                \in DOMAIN _weekCache

\* C7: once a key of the week cache has an entry, no step gives the key
\* another value (or removes it): the entry is written once.
C7_WriteOnce ==
  [][\A k \in DOMAIN _weekCache :
        k \in DOMAIN _weekCache' /\ _weekCache'[k] = _weekCache[k]]_trendVars

\* C8 as stated: no outstanding getWeeklyTrend / getAllStoresWeeklyTrend fetch
\* of a store covers a week of that store that is in the week cache.
C8_NoFetchCoversCachedWeek ==
  \A p \in Reqs :
     InFlight(p) =>
        \A k \in DOMAIN _weekCache :
           k[1] = req[p].fetch.importId => ~Covers(req[p].fetch, _weekCache[k].week)

\* C8, amended: when every closed requested week of the store was cached at
\* the moment the call chose its path, the fetch it issues covers no week of
\* that store that is in the week cache.
C8_NoFetchCoversCachedWeekWhenAllCached ==
  \A p \in Reqs :
     (InFlight(p) /\ req[p].allCached) =>
        \A k \in DOMAIN _weekCache :
           k[1] = req[p].fetch.importId => ~Covers(req[p].fetch, _weekCache[k].week)

\* a getAllStoresWeeklyTrend fetch is outstanding for a store whose closed
\* requested weeks are all cached, and there is such a week
C8_Witness ==
  \E p \in Reqs :
     /\ req[p].pc = "as_fast" /\ req[p].allCached
     /\ \E i \in 1..Len(req[p].weeks) :
          weekCacheKey(req[p].fetch.importId, req[p].weeks[i].start) \in DOMAIN _weekCache

\* C9: a getWeeklyTrend call that found every closed requested week cached
\* issues exactly one getOrdersForLocation call, for the current week only,
\* and every closed slot of its trend is the cached entry of that week.
C9_FastPathOneFetch ==
  \A p \in Reqs :
     LET r == req[p]
         n == Len(r.weeks)
         t == IF r.pc = "done" THEN r.results ELSE r.trend
     IN (r.op = "getWeeklyTrend" /\ r.pc # "idle" /\ r.allCached) =>
           /\ r.nFetch = 1
           /\ r.fetch = Fetch(r.importId, r.weeks[n].start, r.weeks[n].end)
           /\ r.weeks[n].start <= today /\ r.fetch.end - r.fetch.start = 6
           /\ \A i \in 1..(n - 1) :
                 t[i] = _weekCache[weekCacheKey(r.importId, r.weeks[i].start)]

\* a fast-path getWeeklyTrend over at least one cached closed week has returned
C9_Witness ==
  \E p \in Reqs :
     /\ req[p].op = "getWeeklyTrend" /\ req[p].pc = "done" /\ req[p].allCached
     /\ Len(req[p].weeks) >= 2 /\ req[p].nFetch = 1
     /\ req[p].results[Len(req[p].weeks)].summary.net_sales > 0

\* C10: a getWeeklyTrend call that found a closed requested week uncached
\* issues exactly one getOrdersForLocation call, from the oldest week's start
\* to the newest week's end; when it has returned, every bucket of a closed
\* week with net_sales > 0 is the week-cache entry of its key.
C10_BulkPathOneFetchAndCache ==
  \A p \in Reqs :
     LET r == req[p]
         n == Len(r.weeks)
     IN (r.op = "getWeeklyTrend" /\ r.pc # "idle" /\ ~r.allCached) =>
           /\ r.nFetch = 1
           /\ r.fetch = Fetch(r.importId, r.weeks[1].start, r.weeks[n].end)
           /\ r.pc = "done" =>
                \A i \in 1..n :
                   (r.results[i].week.end < today /\ r.results[i].summary.net_sales > 0) =>
                      /\ weekCacheKey(r.importId, r.weeks[i].start) \in DOMAIN _weekCache
                      /\ _weekCache[weekCacheKey(r.importId, r.weeks[i].start)] = r.results[i]

\* a bulk getWeeklyTrend has returned with two closed buckets that have sales
C10_Witness ==
  \E p \in Reqs :
     /\ req[p].op = "getWeeklyTrend" /\ req[p].pc = "done" /\ ~req[p].allCached
     /\ \E i, j \in 1..Len(req[p].results) :
          /\ i < j
          /\ req[p].results[i].week.end < today /\ req[p].results[i].summary.net_sales > 0
          /\ req[p].results[j].week.end < today /\ req[p].results[j].summary.net_sales > 0

\* C11: getWeeklyTrend(importId, weeksBack) returns exactly weeksBack
\* entries, none of them null, oldest week first: entry i (counted from 0)
\* describes weekRange(weeksBack - 1 - i) as of the day of the call.
C11_TrendLengthAndOrder ==
  \A p \in Reqs :
     LET r == req[p]
         n == r.weeksBack
     IN (r.op = "getWeeklyTrend" /\ r.pc = "done") =>
           /\ Len(r.results) = n
           /\ \A i \in 1..n : r.results[i] # Null
           /\ \E d \in FirstDay..today :
                 \A i \in 1..n : r.results[i].week = weekRange(n - i, d)

\* a getWeeklyTrend over the largest number of weeks has returned through the
\* fast path after a midnight has passed
C11_Witness ==
  \E p \in Reqs :
     /\ req[p].op = "getWeeklyTrend" /\ req[p].pc = "done" /\ req[p].allCached
     /\ req[p].weeksBack = MaxWeeksBack /\ today > FirstDay
     /\ Len(req[p].results) = MaxWeeksBack

\* C12: when the one fetch of a fast-path getWeeklyTrend (the fetch of the
\* current week) fails, that week's slot has summary null and a non-null
\* error, and the other slots are the cached entries of their weeks.
C12_FailedWeekCarriesError ==
  \A p \in Reqs :
     LET r == req[p]
         n == Len(r.weeks)
     IN (r.op = "getWeeklyTrend" /\ r.pc = "done" /\ r.allCached /\ r.failAt # 0) =>
           /\ r.results[n].summary = Null
           /\ r.results[n].error # NULL
           /\ \A i \in 1..(n - 1) :
                 r.results[i] = _weekCache[weekCacheKey(r.importId, r.weeks[i].start)]

\* C13: flowhubGet retries a request answered with 429 or any 5xx, sending at
\* most 5 requests per call; before retry attempt k it waits
\* min(1500 * 2^k, 20000) ms, so the waits never decrease and never exceed
\* 20 s; a 2xx response ends the call.  A call therefore ends on a retryable
\* status only when its 5 requests are used up.
C13_RetriesOn429And5xx ==
  \A c \in Callers :
     LET r == call[c]
     IN /\ r.requests <= 5
        /\ \A k \in 1..Len(r.waits) :
              /\ r.waits[k] = (IF 1500 * Pow2(k) <= 20000 THEN 1500 * Pow2(k) ELSE 20000)
              /\ r.waits[k] <= 20000
              /\ k > 1 => r.waits[k - 1] <= r.waits[k]
        /\ (r.pc = "done" /\ resOk(r.status)) => r.result = [kind |-> "ok"]
        /\ (r.pc = "done" /\ (r.status = 429 \/ r.status \in 500..599)) => r.requests = 5

\* C14: a response whose status is not 2xx, not 429 and not 5xx makes
\* flowhubGet fail on that same attempt: no further request, no backoff wait,
\* and the error carries the upstream status and the body cut to 300
\* characters.
C14_OtherStatusFailsAtOnce ==
  [][\A c \in Callers :
        LET r == call[c]
            q == call'[c]
        IN (/\ r.pc = "fetch" /\ q.pc # "fetch"
            /\ ~(q.status \in 200..299) /\ q.status # 429 /\ ~(q.status \in 500..599))
           => /\ q.pc = "done"
              /\ q.attempt = r.attempt
              /\ q.requests = r.requests
              /\ q.waits = r.waits
              /\ q.result.kind = "status"
              /\ q.result.status = q.status
              /\ q.result.body = (IF q.bodyLen <= 300 THEN q.bodyLen ELSE 300)]_vars

C14_Witness ==
  \E c \in Callers :
     /\ call[c].pc = "done" /\ call[c].status = 404
     /\ call[c].attempt = 2 /\ call[c].requests = 3
     /\ call[c].bodyLen > 300 /\ call[c].result.body = 300

\* C15: when all 5 attempts of one call are answered with a retryable
\* status, the call fails with the one "max retries" error, whether the
\* answers were 429, 500 or a mix of both.  (A call reaches its fifth request
\* only after four answers of 429 or 500.)
C15_ExhaustedIsMaxRetries ==
  \A c \in Callers :
     (call[c].pc = "done" /\ call[c].requests = 5 /\ call[c].status \in {429, 500})
        => call[c].result = [kind |-> "max retries"]

\* C16: any two consecutive upstream requests of the process are at least
\* 300 ms apart, whatever the number of concurrent callers; two callers that
\* start while the gap is open do not send at the same instant.
C16_MinGapBetweenRequests ==
  prevSend >= 0 => lastSend - prevSend >= 300

\* C17: when every page request succeeds and the upstream holds N records
\* for the range (total = N), getOrdersForLocation ends and returns exactly
\* those N records, each once; it requests pages 1, 2, ... and stops at the
\* first page after which it has N records or whose length is below the page
\* size.
C17_AllPagesFetchedOnce ==
  (pg.pc = "done" /\ ~pg.failed) =>
     LET all == OrdersInRange(pg.importId, pg.start, pg.end)
         N == Len(all)
         k == Len(pg.pages)
         got(p) == IF p * PAGE_SIZE <= N THEN p * PAGE_SIZE ELSE N
         stops(p) == got(p) >= N \/ got(p) - got(p - 1) < PAGE_SIZE
     IN /\ pg.result = [total |-> N, orders |-> all]
        /\ k >= 1
        /\ \A p \in 1..k : pg.pages[p] = p
        /\ stops(k)
        /\ \A p \in 1..(k - 1) : ~stops(p)

C17_Witness ==
  /\ pg.pc = "done" /\ ~pg.failed
  /\ pg.pages = <<1, 2>>
  /\ Len(pg.result.orders) > PAGE_SIZE
  /\ pg.result.orders = UpstreamOrders(pg.importId)

\* C18: for every order list, summarizeOrders gives every output field the
\* value it gives for the list with all voided orders and all voided line
\* items removed.
C18_VoidedContributeNothing ==
  ret # Null =>
     (ret.op = "summarizeOrders" =>
        LET kept == SelectSeq(inOrders, LAMBDA o : ~(o.voided = TRUE \/ o.orderStatus = "voided"))
            clean == [i \in 1..Len(kept) |->
                        [kept[i] EXCEPT !.itemsInCart =
                            SelectSeq(@, LAMBDA it : it.voided # TRUE)]]
        IN ret.summary = summarizeOrders(clean))

\* C19: for every order list and every permutation of it, summarizeOrders
\* returns identical output, the order of the categories and budtenders
\* entries of equal net_sales included.
C19_PermutationInvariant ==
  ret # Null =>
     (ret.op = "summarizeOrders" =>
        LET n == Len(inOrders)
            Perms == {f \in [1..n -> 1..n] : \A i, j \in 1..n : f[i] = f[j] => i = j}
        IN \A f \in Perms :
              summarizeOrders([i \in 1..n |-> inOrders[f[i]]]) = ret.summary)

\* C20: for consecutive non-overlapping weeks P1..Pn and any order list,
\* bucketOrdersByWeek(orders, weeks)[i].summary is summarizeOrders of exactly
\* the orders dated within Pi.start..Pi.end, the two boundary days included,
\* and no order is counted in two buckets.
C20_BucketEqualsPerWeekSummary ==
  ret # Null =>
     (ret.op = "bucketOrdersByWeek" =>
        LET in(i) == {k \in 1..Len(inOrders) :
                        /\ inWeeks[i].start <= inOrders[k].createdAt
                        /\ inOrders[k].createdAt <= inWeeks[i].end}
        IN /\ Len(ret.trend) = Len(inWeeks)
           /\ \A i \in 1..Len(inWeeks) :
                 /\ ret.trend[i].week = inWeeks[i]
                 /\ ret.trend[i].summary =
                      summarizeOrders(SelectSeq(inOrders, LAMBDA o :
                         inWeeks[i].start <= o.createdAt /\ o.createdAt <= inWeeks[i].end))
           /\ \A i, j \in 1..Len(inWeeks) : i # j => in(i) \cap in(j) = {}
           /\ SumSeq([i \in 1..Len(inWeeks) |-> ret.trend[i].summary.transaction_count])
                 <= Len(inOrders))

C20_Witness ==
  /\ ret # Null
  /\ ret.op = "bucketOrdersByWeek"
  /\ Len(inWeeks) >= 2
  /\ \E k \in 1..Len(inOrders) : inOrders[k].createdAt = inWeeks[1].end
  /\ \E k \in 1..Len(inOrders) : inOrders[k].createdAt = inWeeks[2].start
  /\ \E k \in 1..Len(inOrders) : inOrders[k].createdAt > inWeeks[Len(inWeeks)].end
  /\ ret.trend[1].summary.transaction_count = 1
  /\ ret.trend[2].summary.transaction_count = 1

C22_ReadNeverWaits ==
  \A r \in Readers :
     /\ rd[r].pc # "awaiting"
     /\ (rd[r].pc = "done" /\ rd[r].op = "getCachedTrend") =>
           \/ /\ rd[r].answer # Null
              /\ rd[r].answer # [status |-> "building"]
           \/ /\ rd[r].answer = [status |-> "building"]
              /\ \E w \in Workers : wk[w].pc # "idle"

\* C24: during a rebuild, for any number of stores and any completion order
\* of their fetches, the number of store tasks running at the same time (the
\* limiter's active count) never exceeds CONCURRENCY = 2.
C24_ActiveAtMostConcurrency ==
  /\ active <= 2
  /\ Cardinality({i \in Tasks : task[i] = "running"}) <= 2
  /\ active = Cardinality({i \in Tasks : task[i] = "running"})

C24_Witness ==
  /\ active = 2
  /\ Len(queue) >= 1
  /\ \E i \in Tasks : task[i] \in {"resolved", "rejected"}

\* C23: when several readers request the same trend key while no cached
\* value exists, the underlying computation is started at most once: no two
\* computations for one key are in flight together.
C23_OneComputationPerKey ==
  \A key \in TrendKeys :
     Cardinality({r \in Readers : rd[r].pc = "awaiting" /\ rd[r].key = key}) <= 1

\* C25: any number of saveWeekCache calls made while a flush is pending
\* result in exactly one file write: at most one flush timer is pending at
\* any time, and a call made while one is pending schedules nothing.
C25_OneTimerOneWrite ==
  /\ timers <= 1
  /\ timers = (IF _savePending THEN 1 ELSE 0)
  /\ burst.writes <= 1
  /\ _savePending => (burst.calls >= 1 /\ burst.writes = 0)
  /\ (~_savePending /\ burst.calls >= 1) => burst.writes = 1

C25_Witness ==
  /\ ~_savePending
  /\ burst.calls = MaxCalls /\ burst.writes = 1 /\ burst.wrote = "ok"
  /\ fileState = "ok"
  /\ cacheFile = _weekCache

\* C26: if the week-cache file is unreadable or not valid JSON, loadWeekCache
\* raises no error and leaves the in-memory cache empty, so that every closed
\* week is afterwards treated as uncached.
C26_DamagedFileIsACacheMiss ==
  (boot.file \in {"corrupt", "unreadable"} /\ burst.calls = 0) =>
     /\ boot.status = "up"
     /\ DOMAIN _weekCache = {}
     /\ \A id \in ImportIds, n \in 1..3 :
           LET ws == WeeksOf(n, today)
               un == uncachedWeeks(_weekCache, id, ws, today)
           IN \A i \in 1..n :
                 ws[i].end < today => \E j \in 1..Len(un) : un[j] = ws[i]

C26_Witness ==
  /\ boot = [status |-> "up", file |-> "corrupt"]
  /\ burst.calls = 0
  /\ DOMAIN cacheFile # {}
  /\ DOMAIN _weekCache = {}

\* C27: a failure to persist does not fail the caller.  When the week-cache
\* file write fails, what the callers hold and the in-memory cache are
\* unchanged and the next saveWeekCache arms a new flush; when setJSON
\* reports failure, the rebuild still returns status "ok" and releases the
\* lease.
C27_PersistFailureIsNotFatal ==
  /\ [](burst.wrote = "failed" =>
           /\ boot.status = "up"
           /\ (burst.calls >= 1 /\ ~_savePending) => timers = 0)
  /\ [][(burst'.wrote = "failed" /\ burst.wrote # "failed")
          => /\ _weekCache' = _weekCache
             /\ req' = req
             /\ ~_savePending'
             /\ timers' = 0]_vars
  /\ [][(burst.wrote = "failed" /\ burst'.calls = 1 /\ burst'.wrote = "none")
          => (_savePending' /\ timers' = 1)]_vars
  /\ [](\A w \in Workers :
           (wk[w].pc = "returned" /\ wk[w].locations = "ok") =>
              /\ wk[w].status = "ok"
              /\ wk[w].released
              /\ lease = NoLease)

C27_Witness ==
  /\ burst.wrote = "failed"
  /\ DOMAIN _weekCache # {}
  /\ fileState = "absent"
  /\ wk["w1"].pc = "returned"
  /\ wk["w1"].status = "ok"
  /\ wk["w1"].released
  /\ published = Null

\* C28: if a worker stops after acquiring the lease and never calls
\* releaseLock, the lease is gone once its time to live has elapsed, and a
\* rebuildTrendCache call made after that acquires the lease and runs.
C28_CrashedLeaseExpires ==
  /\ [](lease # NoLease => now < lease.expires)
  /\ \A w \in Workers \ {"w1"} :
        (wk["w1"].pc = "crashed" /\ lease.owner = "w1" /\ wk[w].pc \in {"idle", "returned"})
           ~> (wk[w].pc \in BodyPcs /\ lease.owner = w)

C28_Witness ==
  /\ wk["w1"].pc = "crashed"
  /\ wk["w2"].pc \in BodyPcs
  /\ lease.owner = "w2"
  /\ now >= LOCK_TTL

\* C29: a trend slot is taken from the week cache only when its week is closed
\* (week.end < today); the slot of a week that is still open is never filled
\* from the week cache: every getWeeklyTrend / getAllStoresWeeklyTrend call
\* issues a getOrdersForLocation call whose range covers it, and does so even
\* when the cache holds an entry under that week's key.
C29_OpenWeekNeverFromCache ==
  /\ \A p \in Reqs :
       LET r == req[p]
           n == Len(r.weeks)
       IN /\ r.pc \in {"wt_fast", "as_fast"} =>
               \A i \in 1..n :
                  /\ r.trend[i] # Null =>
                        /\ r.weeks[i].end < today
                        /\ weekCacheKey(r.importId, r.weeks[i].start) \in DOMAIN _weekCache
                        /\ r.trend[i].week = r.weeks[i]
                  /\ r.weeks[i].end >= today => r.trend[i] = Null
          /\ InFlight(p) =>
               /\ r.fetch.importId = r.importId
               /\ \A i \in 1..n : r.weeks[i].end >= today => Covers(r.fetch, r.weeks[i])
          /\ (r.pc = "done" /\ r.op = "getWeeklyTrend" /\ r.weeks[n].end >= today) =>
               /\ r.nFetch = 1
               /\ Covers(r.fetch, r.weeks[n])
          /\ (/\ r.pc = "done" /\ r.op = "getAllStoresWeeklyTrend"
              /\ r.error = NULL /\ r.weeks[n].end >= today) =>
               r.nFetch = Len(r.results)
  /\ \A importId \in ImportIds, weeksBack \in WeeksBackInputs :
       LET weeks == WeeksOf(weeksBack, today)
           cw == weeks[weeksBack]
           withEntry == cachePut(_weekCache, weekCacheKey(importId, cw.start),
                                 [week |-> cw, summary |-> FullSummary(importId, cw),
                                  error |-> NULL])
           uncached == uncachedWeeks(withEntry, importId, weeks, today)
       IN /\ cw.end >= today
          /\ uncached # <<>> /\ uncached[Len(uncached)] = cw
          /\ fastTrend(withEntry, importId, weeks, today)[weeksBack] = Null

\* a fast-path call has returned a trend whose closed slot is the cached entry
\* and whose last week is still open and was fetched
C29_Witness ==
  \E p \in Reqs :
     LET r == req[p]
         n == Len(r.weeks)
     IN /\ r.pc = "done" /\ r.op = "getWeeklyTrend" /\ r.allCached /\ n >= 2
        /\ r.weeks[n].end >= today /\ r.weeks[1].end < today
        /\ r.results[1] = _weekCache[weekCacheKey(r.importId, r.weeks[1].start)]
        /\ r.nFetch = 1 /\ Covers(r.fetch, r.weeks[n])
        /\ r.results[n].summary.net_sales > 0

\* C30: in every rebuild that acquired the lease and got the store list, the
\* payload write starts only when every store task of the rebuild has settled,
\* the write is attempted once and releaseLock is called only after it has
\* finished; and no step releases the lease while a rebuild that acquired it
\* is still before the end of its write attempt.
C30_StepsInOrder ==
  [][/\ \A w \in Workers :
          /\ (wk[w].pc # "write" /\ wk'[w].pc = "write") =>
                /\ wk[w].pc = "fetch"
                /\ \A j \in 1..Len(wk'[w].tasks) : wk'[w].tasks[j].st = "done"
          /\ (wk[w].pc = "fetch" /\ wk'[w].pc # "fetch") => wk'[w].pc = "write"
          /\ (wk[w].pc = "write" /\ wk'[w].pc # "write") => wk'[w].pc = "release"
          /\ (wk[w].pc # "release" /\ wk'[w].pc = "release" /\ wk[w].locations = "ok") =>
                wk[w].pc = "write"
          /\ (~wk[w].released /\ wk'[w].released) => wk[w].pc = "release"
     /\ (lease # NoLease /\ lease' = NoLease /\ now' = now) =>
          \A v \in Workers : wk[v].pc \notin {"locations", "fetch", "write"}
    ]_vars

\* C31: a rebuildTrendCache call whose acquireLock fails returns 'skipped'
\* at once: the step leaves the lease and the published payload as they
\* were, the lease stays held by the running worker, and the call has
\* fetched nothing, built no payload and never calls releaseLock.
C31_SkippedChangesNothing ==
  /\ [](\A w \in Workers :
          wk[w].status = "skipped" =>
             /\ wk[w].pc = "returned"
             /\ ~wk[w].released
             /\ wk[w].locations = "none" /\ wk[w].tasks = <<>> /\ wk[w].payload = Null
             /\ wk[w].failed = {})
  /\ [][\A w \in Workers :
          /\ (wk[w].status # "skipped" /\ wk'[w].status = "skipped") =>
                /\ lease' = lease /\ lease # NoLease /\ lease.owner # w
                /\ published' = published
                /\ \A v \in Workers \ {w} : wk'[v] = wk[v]
          /\ (wk[w].status = "skipped" /\ wk'[w].pc # wk[w].pc) =>
                /\ wk'[w] = IdleWorker
                /\ lease' = lease /\ published' = published
       ]_vars

\* a call has been skipped while the holder of the lease is fetching, and the
\* lease is still the holder's
C31_Witness ==
  \E w, v \in Workers :
     /\ wk[w].status = "skipped" /\ wk[w].pc = "returned" /\ wk[w].blockedBy = v
     /\ wk[v].pc = "fetch" /\ lease.owner = v

\* C32: the releaseLock at the end of a rebuild releases only the lease this
\* invocation acquired: when the lease entry belongs to another invocation
\* (the own lease ran out and the other acquired), the step leaves it alone.
C32_ReleasesOnlyOwnLease ==
  [][\A w \in Workers :
        (wk[w].pc = "release" /\ wk'[w].pc = "returned" /\ lease.owner \notin {w, "none"}) =>
           lease' = lease
    ]_vars

\* C33: when getLocations throws, rebuildTrendCache returns status 'error'
\* with the message of the error; the invocation starts no store task, builds
\* and writes no payload, and none of its steps changes the published payload.
C33_ThrowBeforeWriteKeepsPayload ==
  /\ [](\A w \in Workers :
          wk[w].locations = "threw" =>
             /\ wk[w].pc \in {"release", "returned"}
             /\ wk[w].status = "error"
             /\ wk[w].error = "Flowhub: max retries"
             /\ wk[w].tasks = <<>> /\ wk[w].payload = Null)
  /\ [](\A w \in Workers :
          (wk[w].pc = "returned" /\ wk[w].status = "error") => wk[w].locations = "threw")
  /\ [][\A w \in Workers :
          (wk'[w].locations = "threw" /\ wk'[w].pc # wk[w].pc) => published' = published
       ]_vars
  /\ [][\A w \in Workers :
          (wk[w].locations = "threw" /\ wk'[w].pc # wk[w].pc) => published' = published
       ]_vars

\* a rebuild has returned 'error' after an earlier rebuild published a payload
C33_Witness ==
  \E w \in Workers :
     /\ wk[w].pc = "returned" /\ wk[w].status = "error" /\ wk[w].locations = "threw"
     /\ wk[w].released
     /\ published # Null

\* C34: within one getOrdersForLocation call the page requests are strictly
\* sequential: the one request outstanding is for the page after the pages
\* already answered, the pages requested are 1, 2, 3, ... without a gap, and
\* the request for the next page is issued only in the step that receives the
\* response of the current one.
C34_PagesStrictlySequential ==
  /\ [](pg.pc = "page" => pg.page = Len(pg.pages) + 1)
  /\ [](\A i \in 1..Len(pg.pages) : pg.pages[i] = i)
  /\ [][(pg.pc = "page" /\ pg'.pc = "page" /\ pg'.page # pg.page) =>
           /\ pg'.page = pg.page + 1
           /\ pg'.pages = Append(pg.pages, pg.page)
           /\ pg'.allOrders =
                pg.allOrders \o UpstreamPage(pg.importId, pg.start, pg.end, pg.page).orders
       ]_vars
  /\ [][(pg.pc = "idle" /\ pg'.pc = "page") => (pg'.page = 1 /\ pg'.pages = <<>>)]_vars

\* the request for page 2 is outstanding after page 1 was answered in full
C34_Witness ==
  /\ pg.pc = "page" /\ pg.page = 2 /\ pg.pages = <<1>>
  /\ Len(pg.allOrders) = PAGE_SIZE

\* C35: for every order list, the gross of a live line item in the result of
\* summarizeOrders is the item's totalPrice whenever totalPrice is present,
\* the value 0 included, and unitPrice * quantity only when it is absent.
C35_PresentTotalPriceIsTheGross ==
  ret # Null =>
     ((ret.op = "summarizeOrders" /\ inOrders # <<>>) =>
        LET items == Flatten(Map(liveOrders(inOrders), liveItems))
            price(it) == IF it.totalPrice # {}
                         THEN CHOOSE v \in it.totalPrice : TRUE
                         ELSE (IF it.unitPrice = {} THEN 0 ELSE CHOOSE v \in it.unitPrice : TRUE)
                                 * itemQty(it)
        IN ret.summary.gross_sales = SumSeq(Map(items, price)))

\* C36: when every started task settles in the end, every task submitted to
\* the limiter starts in the end; tasks start in the order in which they were
\* submitted; and the step in which a running task rejects frees its slot and
\* starts the task at the head of the queue.
C36_EveryQueuedTaskStarts ==
  /\ \A i \in Tasks : (task[i] = "queued") ~> (task[i] \in {"running", "resolved", "rejected"})
  /\ [][\A i \in Tasks :
          (task[i] # "running" /\ task'[i] = "running") =>
             \A j \in Tasks : j < i => task[j] \notin {"new", "queued"}
       ]_vars
  /\ [][\A i \in Tasks :
          (task[i] = "running" /\ task'[i] = "rejected") =>
             IF queue = <<>> THEN active' = active - 1
             ELSE /\ task'[Head(queue)] = "running"
                  /\ queue' = Tail(queue)
                  /\ active' = active
       ]_vars

\* the task submitted last runs after tasks before it rejected, with both
\* slots in use
C36_Witness ==
  /\ task[MaxTasks] = "running"
  /\ active = CONCURRENCY
  /\ task[1] = "rejected" /\ task[2] = "rejected"
  /\ queue = <<>>

\* C37: the debounce loses no week-cache write: when the flush armed for a
\* burst of cache writes, each followed by saveWeekCache, has run with
\* success and nothing was stored since, the file content is the in-memory
\* week cache, the entries stored while the flush was pending included.
C37_FlushWritesWholeCache ==
  burst.wrote = "ok" =>
     /\ ~_savePending /\ timers = 0
     /\ cacheFile = _weekCache
     /\ \A k \in DOMAIN _weekCache : k \in DOMAIN cacheFile /\ cacheFile[k] = _weekCache[k]

\* a flush has written an entry that was stored while it was pending
C37_Witness ==
  /\ burst.wrote = "ok"
  /\ burst.calls >= 2
  /\ burst.armed # _weekCache
  /\ DOMAIN burst.armed # DOMAIN cacheFile
  /\ cacheFile = _weekCache

\* C38: on a fixed current day the weeks weekRange(0), weekRange(1), ... are
\* consecutive and do not overlap: each starts on a Monday and ends 6 days
\* later, on a Sunday, and weekRange(k+1).end is the day before
\* weekRange(k).start; weekRange(0) holds today and is not closed, and
\* weekRange(k) is closed (end < today) for every k >= 1.
C38_WeeksConsecutiveAndClosed ==
  ret # Null =>
     (ret.op = "weekRange" =>
        LET w == ret.week
            b == ret.before
            k == ret.weeksBack
        IN /\ w.start % 7 = 0 /\ w.end = w.start + 6 /\ w.end % 7 = 6
           /\ b.start % 7 = 0 /\ b.end = b.start + 6
           /\ b.end = w.start - 1
           /\ b.end < today
           /\ k = 0 => (w.start <= today /\ today <= w.end /\ ~ret.completed)
           /\ k >= 1 => (w.end < today /\ ret.completed)
           /\ w.start = (today - (today % 7)) - 7 * k)

\* weekRange(0) on a Sunday: today is the last day of the current week
C38_Witness ==
  /\ ret # Null
  /\ ret.op = "weekRange"
  /\ ret.weeksBack = 0
  /\ ret.week.end = today
  /\ ret.before.end = today - 7

\* C39: for every order list, the breakdowns of summarizeOrders add up to its
\* totals: categories[].net_sales and budtenders[].net_sales each sum to
\* net_sales, categories[].units and budtenders[].items each sum to
\* total_items, budtenders[].transactions sums to transaction_count, and
\* customer_types.rec + customer_types.med is transaction_count.
C39_BreakdownsAddUpToTotals ==
  ret # Null =>
     (ret.op = "summarizeOrders" =>
        LET r == ret.summary
            cats == r.categories
            bts == r.budtenders
        IN /\ SumSeq([i \in 1..Len(cats) |-> cats[i].net_sales]) = r.net_sales
           /\ SumSeq([i \in 1..Len(bts) |-> bts[i].net_sales]) = r.net_sales
           /\ SumSeq([i \in 1..Len(cats) |-> cats[i].units]) = r.total_items
           /\ SumSeq([i \in 1..Len(bts) |-> bts[i].items]) = r.total_items
           /\ SumSeq([i \in 1..Len(bts) |-> bts[i].transactions]) = r.transaction_count
           /\ r.customer_types.rec + r.customer_types.med = r.transaction_count)

====
